---------------------------- MODULE Spec2Model ----------------------------
(***************************************************************************)
(* Bingo room server: the store-backed GameRoomManager (socket server) and *)
(* the in-memory game state module (WebSocket server).                     *)
(***************************************************************************)
EXTENDS Integers, Sequences, FiniteSets, TLC

(***************************************************************************)
(* Bounds of the model                                                     *)
(***************************************************************************)
\* largest capacity (maxPlayers) of the room that exists at start-up
MaxCapacity == 2
\* longest players list a join may produce in the model
MaxRoomLen == 2
\* most deferred callbacks of one kind pending for one room
MaxPending == 1
\* size of the number pool (the code draws from 1..75)
MaxNumber == 2
\* number of boards a player can pick from
MaxBoard == 2
\* most first-draw warm-up timeouts pending for one room when games are
\* restarted before they fire
MaxWarmups == 2
\* most promotion timeouts pending for one room when it becomes starting again
\* before they fire
MaxPromotions == 2

\* createRoom's default capacity
DefaultMaxPlayers == 100
\* minimum number of players of the auto-start rule
MinPlayers == 2
\* upper limb of the auto-start threshold min(maxPlayers * 0.1, 10)
ThresholdCap == 10

PlayerIds == {"p1", "p2"}
RoomIds == {"r1", "r2"}
\* stake of the room that exists at start-up, and the stakes createRoom is called with
DefaultStake == 10
Stakes == {20}
\* telegramId of a guest (the field is absent)
NoTelegram == 0
TelegramIds == {NoTelegram, 7}
Handles == 1 .. (Cardinality(RoomIds) + 1)
BoardIds == 1 .. MaxBoard

VARIABLES
  rooms,                \* store: room-by-id
  sessions,             \* store: player-session-by-playerId
  selections,           \* store: board selections, keyed by (roomId, playerId)
  games,                \* store: game-state-by-roomId
  activeGameIntervals,  \* process-local registry roomId -> interval handle
  liveIntervals,        \* interval handle -> roomId, for every interval not cleared
  warmups,              \* roomId -> pending first-draw timeouts
  promos,               \* roomId -> pending promotion timeouts
  clock,                \* source of createdAt
  last,                 \* the last call and what it returned
  memRooms,             \* in-memory module: gameState.rooms
  memPlayers,           \* in-memory module: gameState.players
  connections,          \* in-memory module: gameState.connections
  memLive,              \* in-memory module: interval handle -> roomId, intervals not cleared
  memPromos,            \* in-memory module: roomId -> pending promotion timeouts
  memResets,            \* in-memory module: roomId -> pending post-win reset timeouts
  boardCalls,           \* playerId -> that player's selectBoard call in flight
  claimCalls,           \* playerId -> that player's claimBingo call in flight
  ticks,                \* slot -> a run of the scheduler's callNumber in flight
  joinCalls             \* playerId -> that player's joinRoom call in flight

storeVars == <<rooms, sessions, selections, games, activeGameIntervals,
               liveIntervals, warmups, promos, clock>>

memVars == <<memRooms, memPlayers, connections, memLive, memPromos, memResets>>

asyncVars == <<boardCalls, claimCalls, ticks, joinCalls>>

vars == <<storeVars, memVars, asyncVars, last>>

(***************************************************************************)
(* Maps with a growing key set                                             *)
(***************************************************************************)
Put(f, k, v) == [x \in DOMAIN f \cup {k} |-> IF x = k THEN v ELSE f[x]]
Del(f, k) == [x \in DOMAIN f \ {k} |-> f[x]]
EmptyMap == [x \in {} |-> 0]

RemoveAt(seq, i) == SubSeq(seq, 1, i - 1) \o SubSeq(seq, i + 1, Len(seq))

\* Array.prototype.findIndex on the player id, 1-based; 0 when absent
FindIndexById(players, playerId) ==
  IF \E i \in 1 .. Len(players) : players[i].id = playerId
  THEN CHOOSE i \in 1 .. Len(players) :
         /\ players[i].id = playerId
         /\ \A j \in 1 .. (i - 1) : players[j].id # playerId
  ELSE 0

\* Array.prototype.find on the telegramId, as an index; 0 when absent
FindIndexByTelegram(players, telegramId) ==
  IF \E i \in 1 .. Len(players) : players[i].telegramId = telegramId
  THEN CHOOSE i \in 1 .. Len(players) :
         /\ players[i].telegramId = telegramId
         /\ \A j \in 1 .. (i - 1) : players[j].telegramId # telegramId
  ELSE 0

(***************************************************************************)
(* The state store (GameStateManager), one atomic step per operation       *)
(***************************************************************************)
Store ==
  [rooms |-> rooms, sessions |-> sessions, selections |-> selections,
   games |-> games, registry |-> activeGameIntervals, live |-> liveIntervals,
   warmups |-> warmups, promos |-> promos]

SetRoom(s, roomId, room) == [s EXCEPT !.rooms = Put(s.rooms, roomId, room)]

SetPlayerSession(s, playerId, roomId) ==
  [s EXCEPT !.sessions = Put(s.sessions, playerId, roomId)]

\* a removal that leaves the mapping in place
RemovePlayerSessionKept(s, playerId) == s

RemovePlayerSession(s, playerId) ==
  [s EXCEPT !.sessions = Del(s.sessions, playerId)]

RemovePlayerFromAllBoardSelections(s, playerId) ==
  [s EXCEPT !.selections = {x \in s.selections : x.playerId # playerId}]

RemovePlayerFromAllRooms(s, playerId) ==
  [s EXCEPT !.rooms =
     [r \in DOMAIN s.rooms |->
        LET kept == SelectSeq(s.rooms[r].players, LAMBDA p : p.id # playerId)
        IN [s.rooms[r] EXCEPT !.players = kept, !.prize = Len(kept) * s.rooms[r].stake]]]

RemovePlayerByTelegramId(s, telegramId, keepId) ==
  [s EXCEPT !.rooms =
     [r \in DOMAIN s.rooms |->
        LET kept == SelectSeq(s.rooms[r].players,
                              LAMBDA p : ~(p.telegramId = telegramId /\ p.id # keepId))
        IN [s.rooms[r] EXCEPT !.players = kept, !.prize = Len(kept) * s.rooms[r].stake]]]

FreshGameState ==
  [calledNumbers |-> <<>>, currentNumber |-> 0, gameStatus |-> "waiting",
   winners |-> <<>>]

ResetGameState(s, roomId) == [s EXCEPT !.games = Put(s.games, roomId, FreshGameState)]

SetGameState(s, roomId, gameState) ==
  [s EXCEPT !.games = Put(s.games, roomId, gameState)]

(***************************************************************************)
(* The number-calling scheduler's registry                                 *)
(***************************************************************************)
StopCentralizedNumberCalling(s, roomId) ==
  IF roomId \in DOMAIN s.registry
  THEN [s EXCEPT !.live = Del(s.live, s.registry[roomId]),
                 !.registry = Del(s.registry, roomId)]
  ELSE s

FreshHandle(s) == CHOOSE h \in Handles \ DOMAIN s.live :
                    \A g \in Handles \ DOMAIN s.live : h <= g

\* a start that registers a new interval without clearing the registered one
StartWithoutClearing(s, roomId) ==
  LET h == FreshHandle(s)
  IN [s EXCEPT !.warmups[roomId] = @ + 1,
               !.live = Put(s.live, h, roomId),
               !.registry = Put(s.registry, roomId, h)]

StartCentralizedNumberCalling(s, roomId) ==
  LET s1 == IF roomId \in DOMAIN s.registry
            THEN [s EXCEPT !.live = Del(s.live, s.registry[roomId]),
                           !.registry = Del(s.registry, roomId)]
            ELSE s
      h == FreshHandle(s1)
  IN [s1 EXCEPT !.warmups[roomId] = @ + 1,
                !.live = Put(s1.live, h, roomId),
                !.registry = Put(s1.registry, roomId, h)]

\* the model can register another interval and warm-up for the room, with at
\* most cap warm-ups pending
CanStartWithin(s, roomId, cap) ==
  /\ s.warmups[roomId] < cap
  /\ Handles \ {h \in DOMAIN s.live : ~(roomId \in DOMAIN s.registry
                                        /\ s.registry[roomId] = h)} # {}

CanStart(s, roomId) == CanStartWithin(s, roomId, MaxPending)

(***************************************************************************)
(* GameRoomManager, every call run to completion                           *)
(***************************************************************************)
NewRoom(stake, createdAt) ==
  [stake |-> stake, players |-> <<>>, maxPlayers |-> DefaultMaxPlayers,
   status |-> "waiting", prize |-> 0, createdAt |-> createdAt,
   activeGames |-> 0, gameStartTime |-> FALSE, calledNumbers |-> <<>>,
   currentNumber |-> 0]

ResetRoomStatusOnly(room) == [room EXCEPT !.status = "waiting"]

\* status, activeGames, calledNumbers, currentNumber, gameStartTime of a room that
\* leaveRoom resets
ResetRoomFields(room) ==
  [room EXCEPT !.status = "waiting", !.activeGames = 0, !.calledNumbers = <<>>,
               !.currentNumber = 0, !.gameStartTime = FALSE]

RecomputePrizeStale(room) == room

\* room.prize = room.players.length * room.stake

RecomputePrize(room) == [room EXCEPT !.prize = Len(room.players) * room.stake]

LeaveRoomOp(s, roomId, playerId) ==
  IF roomId \notin DOMAIN s.rooms THEN [s |-> s, success |-> FALSE]
  ELSE
    LET room == s.rooms[roomId]
        playerIndex == FindIndexById(room.players, playerId)
    IN IF playerIndex = 0 THEN [s |-> s, success |-> FALSE]
       ELSE
         LET room1 == RecomputePrize(
                        [room EXCEPT !.players = RemoveAt(room.players, playerIndex)])
             s1 == RemovePlayerFromAllBoardSelections(
                     RemovePlayerSession(s, playerId), playerId)
             reset == \/ Len(room1.players) = 0
                      \/ (Len(room1.players) < 2 /\ room1.status # "waiting")
             room2 == IF reset THEN ResetRoomFields(room1) ELSE room1
             s2 == IF reset
                   THEN StopCentralizedNumberCalling(ResetGameState(s1, roomId), roomId)
                   ELSE s1
         IN [s |-> SetRoom(s2, roomId, room2), success |-> TRUE]

AutoStartAtMinPlayers(n, maxPlayers) == n >= MinPlayers

\* players.length >= minPlayers && players.length >= Math.min(maxPlayers * 0.1, 10)
AutoStart(n, maxPlayers) ==
  /\ n >= MinPlayers
  /\ (10 * n >= maxPlayers \/ n >= ThresholdCap)

\* a refusal that also forgets the session mappings
JoinFailDropsSessions(s, message) ==
  [s |-> [s EXCEPT !.sessions = EmptyMap], success |-> FALSE, message |-> message,
   scheduled |-> FALSE]

JoinFail(s, message) ==
  [s |-> s, success |-> FALSE, message |-> message, scheduled |-> FALSE]

RoomIsFullOffByOne(room) == Len(room.players) > room.maxPlayers

\* room.players.length >= room.maxPlayers

RoomIsFull(room) == Len(room.players) >= room.maxPlayers

JoinRoomOp(s, roomId, player) ==
  IF roomId \notin DOMAIN s.rooms THEN JoinFail(s, "Room not found")
  ELSE
    LET room == s.rooms[roomId] IN
    IF RoomIsFull(room) THEN JoinFail(s, "Room is full")
    ELSE IF room.status # "waiting" THEN JoinFail(s, "Game already started")
    ELSE
      LET s1 == IF player.id \in DOMAIN s.sessions /\ s.sessions[player.id] # roomId
                THEN LeaveRoomOp(s, s.sessions[player.id], player.id).s
                ELSE s
          hasTelegram == player.telegramId # NoTelegram
          tgIndex == IF hasTelegram
                     THEN FindIndexByTelegram(room.players, player.telegramId)
                     ELSE 0
          evict == tgIndex # 0 /\ room.players[tgIndex].id # player.id
          players1 == IF evict
                      THEN SelectSeq(room.players,
                                     LAMBDA p : p.telegramId # player.telegramId)
                      ELSE room.players
          s2 == IF evict
                THEN RemovePlayerFromAllBoardSelections(
                       RemovePlayerSession(s1, room.players[tgIndex].id),
                       room.players[tgIndex].id)
                ELSE s1
      IN IF ~hasTelegram /\ FindIndexById(room.players, player.id) # 0
         THEN [s |-> SetPlayerSession(s1, player.id, roomId), success |-> TRUE,
               message |-> "Already in room", scheduled |-> FALSE]
         ELSE
           LET s3 == IF hasTelegram
                     THEN RemovePlayerByTelegramId(s2, player.telegramId, player.id)
                     ELSE RemovePlayerFromAllRooms(s2, player.id)
               room1 == RecomputePrize([room EXCEPT !.players = Append(players1, player)])
               start == AutoStart(Len(room1.players), room1.maxPlayers)
               room2 == IF start THEN [room1 EXCEPT !.status = "starting"] ELSE room1
               s4 == IF start THEN [s3 EXCEPT !.promos[roomId] = @ + 1] ELSE s3
           IN [s |-> SetPlayerSession(SetRoom(s4, roomId, room2), player.id, roomId),
               success |-> TRUE, message |-> "", scheduled |-> start]

PromotedStatusOnly(room) == [room EXCEPT !.status = "active"]

\* currentRoom.status = "active"; gameStartTime = new Date(); activeGames = 1
PromotedRoom(room) ==
  [room EXCEPT !.status = "active", !.gameStartTime = TRUE, !.activeGames = 1]

PromotionOpUnguarded(s, roomId) ==
  StartCentralizedNumberCalling(
    SetRoom([s EXCEPT !.promos[roomId] = @ - 1], roomId, PromotedRoom(s.rooms[roomId])),
    roomId)

\* the setTimeout callback of joinRoom, 10 seconds after the room became starting
PromotionOp(s, roomId) ==
  LET s0 == [s EXCEPT !.promos[roomId] = @ - 1] IN
  IF roomId \in DOMAIN s.rooms /\ s.rooms[roomId].status = "starting"
  THEN StartCentralizedNumberCalling(
         SetRoom(s0, roomId, PromotedRoom(s.rooms[roomId])), roomId)
  ELSE s0


\* GameStateManager.callNextNumber: draw n, a number not called yet
CallNextNumber(s, roomId, n) ==
  IF roomId \in DOMAIN s.games
  THEN SetGameState(s, roomId,
         [s.games[roomId] EXCEPT !.calledNumbers = Append(@, n),
                                 !.currentNumber = n])
  ELSE s

Called(gameState) == {gameState.calledNumbers[i] : i \in 1 .. Len(gameState.calledNumbers)}

\* the numbers callNextNumber can draw for the room
Remaining(s, roomId) ==
  IF roomId \in DOMAIN s.games THEN (1 .. MaxNumber) \ Called(s.games[roomId]) ELSE {}

\* one run of the scheduler's callNumber closure; n is the number drawn, if one is
CallNumberOp(s, roomId, n) ==
  IF roomId \notin DOMAIN s.games \/ s.games[roomId].gameStatus # "active"
  THEN StopCentralizedNumberCalling(s, roomId)
  ELSE IF Len(s.games[roomId].calledNumbers) >= MaxNumber
  THEN StopCentralizedNumberCalling(
         SetGameState(s, roomId, [s.games[roomId] EXCEPT !.gameStatus = "finished"]),
         roomId)
  ELSE IF n \in Remaining(s, roomId) THEN CallNextNumber(s, roomId, n)
  ELSE s

(***************************************************************************)
(* Store-backed server: room membership, calls applied one at a time       *)
(***************************************************************************)
NoCall ==
  [op |-> "none", roomId |-> "", playerId |-> "", arg |-> 0, success |-> TRUE,
   message |-> ""]

Call(op, roomId, playerId, arg, success, message) ==
  [op |-> op, roomId |-> roomId, playerId |-> playerId, arg |-> arg,
   success |-> success, message |-> message]

\* the store after ensureDefaultRooms: one default room, of the given capacity
InitStore(capacity) ==
  /\ rooms = [r \in {"r1"} |-> [NewRoom(DefaultStake, 0) EXCEPT !.maxPlayers = capacity]]
  /\ sessions = EmptyMap
  /\ selections = {}
  /\ games = EmptyMap
  /\ activeGameIntervals = EmptyMap
  /\ liveIntervals = EmptyMap
  /\ warmups = [r \in RoomIds |-> 0]
  /\ promos = [r \in RoomIds |-> 0]
  /\ clock = 1

Commit(s) ==
  /\ rooms' = s.rooms
  /\ sessions' = s.sessions
  /\ selections' = s.selections
  /\ games' = s.games
  /\ activeGameIntervals' = s.registry
  /\ liveIntervals' = s.live
  /\ warmups' = s.warmups
  /\ promos' = s.promos
  /\ UNCHANGED <<memVars, asyncVars>>

WithinBounds(s) ==
  /\ \A r \in DOMAIN s.rooms : Len(s.rooms[r].players) <= MaxRoomLen
  /\ \A r \in RoomIds : s.promos[r] <= MaxPending /\ s.warmups[r] <= MaxPending

CreateRoom(stake) ==
  /\ \E roomId \in RoomIds \ DOMAIN rooms :
       /\ rooms' = Put(rooms, roomId, NewRoom(stake, clock))
       /\ last' = Call("createRoom", roomId, "", 0, TRUE, "")
  /\ clock' = clock + 1
  /\ UNCHANGED <<sessions, selections, games, activeGameIntervals, liveIntervals,
                 warmups, promos, memVars, asyncVars>>

JoinRoom(roomId, player) ==
  LET res == JoinRoomOp(Store, roomId, player) IN
  /\ WithinBounds(res.s)
  /\ Commit(res.s)
  /\ last' = Call("joinRoom", roomId, player.id, player.telegramId, res.success,
                  res.message)
  /\ UNCHANGED clock

LeaveRoom(roomId, playerId) ==
  LET res == LeaveRoomOp(Store, roomId, playerId) IN
  /\ Commit(res.s)
  /\ last' = Call("leaveRoom", roomId, playerId, 0, res.success, "")
  /\ UNCHANGED clock

PromotionFires(roomId) ==
  /\ promos[roomId] > 0
  /\ CanStart(Store, roomId)
  /\ Commit(PromotionOp(Store, roomId))
  /\ last' = Call("promotion", roomId, "", 0, TRUE, "")
  /\ UNCHANGED clock

\* the setTimeout(callNumber, 3000) of a scheduler start fires
WarmupFires(roomId) ==
  /\ warmups[roomId] > 0
  /\ \E n \in 1 .. MaxNumber :
       /\ Remaining(Store, roomId) # {} => n \in Remaining(Store, roomId)
       /\ Remaining(Store, roomId) = {} => n = 1
       /\ Commit(CallNumberOp([Store EXCEPT !.warmups[roomId] = @ - 1], roomId, n))
  /\ last' = Call("tick", roomId, "", 0, TRUE, "")
  /\ UNCHANGED clock

\* a live setInterval(callNumber, 5000) fires
IntervalFires(h) ==
  /\ h \in DOMAIN liveIntervals
  /\ \E n \in 1 .. MaxNumber :
       /\ Remaining(Store, liveIntervals[h]) # {} => n \in Remaining(Store, liveIntervals[h])
       /\ Remaining(Store, liveIntervals[h]) = {} => n = 1
       /\ Commit(CallNumberOp(Store, liveIntervals[h], n))
  /\ last' = Call("tick", liveIntervals[h], "", 0, TRUE, "")
  /\ UNCHANGED clock

NextRoom ==
  \/ \E stake \in Stakes : CreateRoom(stake)
  \/ \E roomId \in RoomIds, id \in PlayerIds, telegramId \in TelegramIds :
       JoinRoom(roomId, [id |-> id, telegramId |-> telegramId])
  \/ \E roomId \in RoomIds, playerId \in PlayerIds : LeaveRoom(roomId, playerId)
  \/ \E roomId \in RoomIds : PromotionFires(roomId)
  \/ \E roomId \in RoomIds : WarmupFires(roomId)
  \/ \E h \in Handles : IntervalFires(h)


(***************************************************************************)
(* Store-backed server: finding a room to join                             *)
(***************************************************************************)
\* the orders in which GameStateManager.getAllRooms can list the rooms
RoomOrders(s) ==
  {order \in [1 .. Cardinality(DOMAIN s.rooms) -> DOMAIN s.rooms] :
     \A r \in DOMAIN s.rooms : \E i \in DOMAIN order : order[i] = r}

\* one step of the stable sort: roomId goes behind every room created no later
InsertByCreatedAt(s, sorted, roomId) ==
  LET k == Cardinality({i \in 1 .. Len(sorted) :
                          s.rooms[sorted[i]].createdAt <= s.rooms[roomId].createdAt})
  IN SubSeq(sorted, 1, k) \o <<roomId>> \o SubSeq(sorted, k + 1, Len(sorted))

RECURSIVE SortByCreatedAt(_, _)
\* Array.prototype.sort((a, b) => a.createdAt.getTime() - b.createdAt.getTime())
SortByCreatedAt(s, ids) ==
  IF ids = <<>> THEN <<>>
  ELSE InsertByCreatedAt(s, SortByCreatedAt(s, SubSeq(ids, 1, Len(ids) - 1)),
                         ids[Len(ids)])

\* the rooms of the stake in the order the store lists them
GetRoomsByStakeUnsorted(s, stake, order) ==
  SelectSeq(order, LAMBDA r : s.rooms[r].stake = stake)

\* getRoomsByStake: filter by stake, then sort by createdAt
GetRoomsByStake(s, stake, order) ==
  SortByCreatedAt(s, SelectSeq(order, LAMBDA r : s.rooms[r].stake = stake))

\* findAvailableRoom: the id of the first waiting room with a free place; "" is null
FindAvailableRoomOp(s, stake, order) ==
  LET found == SelectSeq(GetRoomsByStake(s, stake, order),
                         LAMBDA r : /\ s.rooms[r].status = "waiting"
                                    /\ Len(s.rooms[r].players) < s.rooms[r].maxPlayers)
  IN IF found = <<>> THEN "" ELSE found[1]

FindAvailableRoom(stake) ==
  /\ \E order \in RoomOrders(Store) :
       last' = Call("findAvailableRoom", FindAvailableRoomOp(Store, stake, order), "",
                    stake, TRUE, "")
  /\ UNCHANGED <<storeVars, memVars, asyncVars>>

\* rooms of either stake are created, joined and left, and clients look for a
\* room to join
NextFind ==
  \/ \E stake \in {DefaultStake} \cup Stakes : CreateRoom(stake)
  \/ \E roomId \in RoomIds, id \in PlayerIds :
       JoinRoom(roomId, [id |-> id, telegramId |-> NoTelegram])
  \/ \E roomId \in RoomIds, playerId \in PlayerIds : LeaveRoom(roomId, playerId)
  \/ \E roomId \in RoomIds : PromotionFires(roomId)
  \/ \E stake \in {DefaultStake} \cup Stakes : FindAvailableRoom(stake)

(***************************************************************************)
(* Store-backed server: selectBoard calls that interleave at their awaits  *)
(***************************************************************************)
\* a call that is not in flight
Idle == [pc |-> "idle", roomId |-> "", arg |-> 0]

BoardCall(pc, roomId, boardNumber) == [pc |-> pc, roomId |-> roomId, arg |-> boardNumber]

\* GameStateManager.getBoardSelections
GetBoardSelections(roomId) == {x \in selections : x.roomId = roomId}

\* GameStateManager.removeBoardSelection
RemoveBoardSelection(roomId, playerId) ==
  {x \in selections : ~(x.roomId = roomId /\ x.playerId = playerId)}

\* GameStateManager.setBoardSelection
SetBoardSelection(roomId, playerId, boardNumber) ==
  RemoveBoardSelection(roomId, playerId)
    \cup {[roomId |-> roomId, playerId |-> playerId, boardNumber |-> boardNumber]}

ExistingSelectionIgnored(snapshot, playerId, boardNumber) == FALSE

\* selections.find((s) => s.boardNumber === boardNumber && s.playerId !== playerId)
ExistingSelection(snapshot, playerId, boardNumber) ==
  \E x \in snapshot : x.boardNumber = boardNumber /\ x.playerId # playerId

\* selectBoard up to its first await: the store answers getBoardSelections and the
\* call either returns the refusal or goes on to removeBoardSelection
SelectBoardRead(playerId, roomId, boardNumber) ==
  /\ boardCalls[playerId].pc = "idle"
  /\ IF ExistingSelection(GetBoardSelections(roomId), playerId, boardNumber)
     THEN /\ last' = Call("selectBoard", roomId, playerId, boardNumber, FALSE,
                          "Board is already selected")
          /\ UNCHANGED boardCalls
     ELSE /\ boardCalls' = [boardCalls EXCEPT
                              ![playerId] = BoardCall("remove", roomId, boardNumber)]
          /\ UNCHANGED last
  /\ UNCHANGED <<storeVars, memVars, claimCalls, ticks, joinCalls>>

\* await GameStateManager.removeBoardSelection(roomId, playerId)
SelectBoardRemove(playerId) ==
  /\ boardCalls[playerId].pc = "remove"
  /\ selections' = RemoveBoardSelection(boardCalls[playerId].roomId, playerId)
  /\ boardCalls' = [boardCalls EXCEPT ![playerId].pc = "set"]
  /\ UNCHANGED <<rooms, sessions, games, activeGameIntervals, liveIntervals, warmups,
                 promos, clock, memVars, claimCalls, ticks, joinCalls, last>>

\* await GameStateManager.setBoardSelection(roomId, playerId, newSelection)
SelectBoardSet(playerId) ==
  /\ boardCalls[playerId].pc = "set"
  /\ selections' = SetBoardSelection(boardCalls[playerId].roomId, playerId,
                                     boardCalls[playerId].arg)
  /\ boardCalls' = [boardCalls EXCEPT ![playerId].pc = "return"]
  /\ UNCHANGED <<rooms, sessions, games, activeGameIntervals, liveIntervals, warmups,
                 promos, clock, memVars, claimCalls, ticks, joinCalls, last>>

\* the last getBoardSelections and the return of { success: true, selections }
SelectBoardReturn(playerId) ==
  /\ boardCalls[playerId].pc = "return"
  /\ last' = Call("selectBoard", boardCalls[playerId].roomId, playerId,
                  boardCalls[playerId].arg, TRUE, "")
  /\ boardCalls' = [boardCalls EXCEPT ![playerId] = Idle]
  /\ UNCHANGED <<storeVars, memVars, claimCalls, ticks, joinCalls>>

\* deselectBoard: its one write, then the read it returns
DeselectBoard(playerId, roomId) ==
  /\ boardCalls[playerId].pc = "idle"
  /\ selections' = RemoveBoardSelection(roomId, playerId)
  /\ last' = Call("deselectBoard", roomId, playerId, 0, TRUE, "")
  /\ UNCHANGED <<rooms, sessions, games, activeGameIntervals, liveIntervals, warmups,
                 promos, clock, memVars, asyncVars>>

NextBoard ==
  \/ \E playerId \in PlayerIds, roomId \in RoomIds, boardNumber \in BoardIds :
       SelectBoardRead(playerId, roomId, boardNumber)
  \/ \E playerId \in PlayerIds : SelectBoardRemove(playerId)
  \/ \E playerId \in PlayerIds : SelectBoardSet(playerId)
  \/ \E playerId \in PlayerIds : SelectBoardReturn(playerId)
  \/ \E playerId \in PlayerIds, roomId \in RoomIds : DeselectBoard(playerId, roomId)

(***************************************************************************)
(* Store-backed server: startGame, claimBingo, resetGame and the scheduler *)
(* tick, each interleaving with the others at its awaits                   *)
(***************************************************************************)
\* the rooms whose game the calls below are issued for
RaceRoomIds == {"r1"}
\* the runs of the scheduler's callNumber that can be in flight at once
TickSlots == {1}

\* what getGameState answers for a room that has no game state
Missing ==
  [calledNumbers |-> <<>>, currentNumber |-> 0, gameStatus |-> "missing",
   winners |-> <<>>]

\* GameStateManager.getGameState
GetGameState(roomId) == IF roomId \in DOMAIN games THEN games[roomId] ELSE Missing

\* a call in flight that holds its own copy of the game state
GameCall(pc, roomId, gameState) == [pc |-> pc, roomId |-> roomId, gameState |-> gameState]

CommitStore(s) ==
  /\ rooms' = s.rooms
  /\ sessions' = s.sessions
  /\ selections' = s.selections
  /\ games' = s.games
  /\ activeGameIntervals' = s.registry
  /\ liveIntervals' = s.live
  /\ warmups' = s.warmups
  /\ promos' = s.promos
  /\ UNCHANGED <<clock, memVars>>

\* startGame, run to completion: a missing state counts as a fresh waiting one
StartGameWithin(roomId, cap) ==
  /\ LET read == GetGameState(roomId)
         gameState == IF read = Missing THEN FreshGameState ELSE read
     IN IF gameState.gameStatus = "waiting"
        THEN /\ CanStartWithin(Store, roomId, cap)
             /\ CommitStore(StartCentralizedNumberCalling(
                              SetGameState(Store, roomId,
                                           [gameState EXCEPT !.gameStatus = "active"]),
                              roomId))
             /\ last' = Call("startGame", roomId, "", 0, TRUE, "")
        ELSE /\ last' = Call("startGame", roomId, "", 0, FALSE,
                             "Game already started or not in waiting state")
             /\ UNCHANGED <<storeVars, memVars>>
  /\ UNCHANGED asyncVars

StartGame(roomId) == StartGameWithin(roomId, MaxPending)

GameNotActiveOnlyMissing(gameState) == gameState = Missing

\* !gameState || gameState.gameStatus !== "active"
GameNotActive(gameState) == gameState = Missing \/ gameState.gameStatus # "active"

\* claimBingo up to its guard: the refusal returns at once
ClaimBingoRead(playerId, roomId) ==
  /\ claimCalls[playerId].pc = "idle"
  /\ IF GameNotActive(GetGameState(roomId))
     THEN /\ last' = Call("claimBingo", roomId, playerId, 0, FALSE,
                          "Game not active or state not found")
          /\ UNCHANGED claimCalls
     ELSE /\ claimCalls' = [claimCalls EXCEPT ![playerId] =
                              GameCall("push", roomId, GetGameState(roomId))]
          /\ UNCHANGED last
  /\ UNCHANGED <<storeVars, memVars, boardCalls, ticks, joinCalls>>

\* the winner is pushed on the call's copy; the first winner finishes the game and
\* stops the scheduler
ClaimBingoPush(playerId) ==
  /\ claimCalls[playerId].pc = "push"
  /\ LET roomId == claimCalls[playerId].roomId
         winners == Append(claimCalls[playerId].gameState.winners, playerId)
         gameState == [claimCalls[playerId].gameState EXCEPT
                         !.winners = winners,
                         !.gameStatus = IF Len(winners) = 1 THEN "finished" ELSE @]
     IN /\ claimCalls' = [claimCalls EXCEPT ![playerId] = GameCall("write", roomId, gameState)]
        /\ CommitStore(IF Len(winners) = 1
                       THEN StopCentralizedNumberCalling(Store, roomId)
                       ELSE Store)
  /\ UNCHANGED <<boardCalls, ticks, joinCalls, last>>

\* await GameStateManager.setGameState(roomId, gameState) and the return
ClaimBingoWrite(playerId) ==
  /\ claimCalls[playerId].pc = "write"
  /\ CommitStore(SetGameState(Store, claimCalls[playerId].roomId,
                              claimCalls[playerId].gameState))
  /\ last' = Call("claimBingo", claimCalls[playerId].roomId, playerId, 0, TRUE, "")
  /\ claimCalls' = [claimCalls EXCEPT ![playerId] = Idle]
  /\ UNCHANGED <<boardCalls, ticks, joinCalls>>

\* resetGame, run to completion: the scheduler is stopped, the store resets the game
ResetGame(roomId) ==
  /\ CommitStore(ResetGameState(StopCentralizedNumberCalling(Store, roomId), roomId))
  /\ last' = Call("resetGame", roomId, "", 0, TRUE, "")
  /\ UNCHANGED asyncVars

\* the slot a new run of callNumber takes
FreeTick == CHOOSE i \in DOMAIN ticks :
              ticks[i].pc = "idle" /\ \A j \in DOMAIN ticks : ticks[j].pc = "idle" => i <= j

\* the setTimeout(callNumber, 3000) of a scheduler start fires
TickWarmup(roomId) ==
  /\ warmups[roomId] > 0
  /\ \E i \in DOMAIN ticks : ticks[i].pc = "idle"
  /\ ticks' = [ticks EXCEPT ![FreeTick] = BoardCall("read", roomId, 0)]
  /\ CommitStore([Store EXCEPT !.warmups[roomId] = @ - 1])
  /\ UNCHANGED <<boardCalls, claimCalls, joinCalls, last>>

\* a live setInterval(callNumber, 5000) fires
TickInterval(h) ==
  /\ h \in DOMAIN liveIntervals
  /\ \E i \in DOMAIN ticks : ticks[i].pc = "idle"
  /\ ticks' = [ticks EXCEPT ![FreeTick] = BoardCall("read", liveIntervals[h], 0)]
  /\ UNCHANGED <<storeVars, memVars, boardCalls, claimCalls, joinCalls, last>>

\* callNumber: await GameStateManager.getGameState(roomId)
TickRead(i) ==
  /\ ticks[i].pc = "read"
  /\ ticks' = [ticks EXCEPT ![i] =
                 GameCall("decide", ticks[i].roomId, GetGameState(ticks[i].roomId))]
  /\ UNCHANGED <<storeVars, memVars, boardCalls, claimCalls, joinCalls, last>>

\* callNumber between its read and its next await, working on the copy it read
TickDecide(i) ==
  /\ ticks[i].pc = "decide"
  /\ LET roomId == ticks[i].roomId
         gameState == ticks[i].gameState
     IN IF gameState = Missing \/ gameState.gameStatus # "active"
        THEN /\ CommitStore(StopCentralizedNumberCalling(Store, roomId))
             /\ ticks' = [ticks EXCEPT ![i] = Idle]
        ELSE IF Len(gameState.calledNumbers) >= MaxNumber
        THEN /\ ticks' = [ticks EXCEPT ![i] =
                            GameCall("write", roomId,
                                     [gameState EXCEPT !.gameStatus = "finished"])]
             /\ UNCHANGED <<storeVars, memVars>>
        ELSE /\ ticks' = [ticks EXCEPT ![i] = BoardCall("call", roomId, 0)]
             /\ UNCHANGED <<storeVars, memVars>>
  /\ UNCHANGED <<boardCalls, claimCalls, joinCalls, last>>

\* exhaustion: await GameStateManager.setGameState(roomId, gameState)
TickWrite(i) ==
  /\ ticks[i].pc = "write"
  /\ CommitStore(SetGameState(Store, ticks[i].roomId, ticks[i].gameState))
  /\ ticks' = [ticks EXCEPT ![i] = BoardCall("stop", ticks[i].roomId, 0)]
  /\ UNCHANGED <<boardCalls, claimCalls, joinCalls, last>>

\* exhaustion: this.stopCentralizedNumberCalling(roomId) after the write
TickStop(i) ==
  /\ ticks[i].pc = "stop"
  /\ CommitStore(StopCentralizedNumberCalling(Store, ticks[i].roomId))
  /\ ticks' = [ticks EXCEPT ![i] = Idle]
  /\ UNCHANGED <<boardCalls, claimCalls, joinCalls, last>>

\* await GameStateManager.callNextNumber(roomId): the store draws n, or nothing when
\* no number is left or the game state is gone
TickCall(i, n) ==
  /\ ticks[i].pc = "call"
  /\ Remaining(Store, ticks[i].roomId) # {} => n \in Remaining(Store, ticks[i].roomId)
  /\ Remaining(Store, ticks[i].roomId) = {} => n = 1
  /\ CommitStore(IF n \in Remaining(Store, ticks[i].roomId)
                 THEN CallNextNumber(Store, ticks[i].roomId, n)
                 ELSE Store)
  /\ ticks' = [ticks EXCEPT ![i] = IF n \in Remaining(Store, ticks[i].roomId)
                                   THEN BoardCall("fetch", ticks[i].roomId, 0)
                                   ELSE Idle]
  /\ UNCHANGED <<boardCalls, claimCalls, joinCalls, last>>

\* a number was drawn: await GameStateManager.getGameState(roomId) again
TickFetch(i) ==
  /\ ticks[i].pc = "fetch"
  /\ ticks' = [ticks EXCEPT ![i] =
                 IF GetGameState(ticks[i].roomId) = Missing
                 THEN Idle
                 ELSE GameCall("emit", ticks[i].roomId, GetGameState(ticks[i].roomId))]
  /\ UNCHANGED <<storeVars, memVars, boardCalls, claimCalls, joinCalls, last>>

\* io.to(roomId).emit("game-state-update", updatedGameState): the snapshot the
\* tick fetched goes out to the room
TickEmit(i) ==
  /\ ticks[i].pc = "emit"
  /\ ticks' = [ticks EXCEPT ![i] = Idle]
  /\ UNCHANGED <<storeVars, memVars, boardCalls, claimCalls, joinCalls, last>>

\* the players of the runs in which three of them share a room; all are guests
Guests == PlayerIds \cup {"p3"}

\* joinRoom of a guest (no telegramId), run to completion, with at most cap
\* promotion timeouts pending for a room
GuestJoinsWithin(roomId, playerId, cap) ==
  LET res == JoinRoomOp(Store, roomId, [id |-> playerId, telegramId |-> NoTelegram]) IN
  /\ \A r \in RoomIds : res.s.promos[r] <= cap
  /\ Commit(res.s)
  /\ last' = Call("joinRoom", roomId, playerId, NoTelegram, res.success, res.message)
  /\ UNCHANGED clock

GuestJoins(roomId, playerId) == GuestJoinsWithin(roomId, playerId, MaxPending)

NextGame ==
  \/ \E roomId \in RaceRoomIds : StartGame(roomId)
  \/ \E playerId \in PlayerIds, roomId \in RaceRoomIds : ClaimBingoRead(playerId, roomId)
  \/ \E playerId \in PlayerIds : ClaimBingoPush(playerId)
  \/ \E playerId \in PlayerIds : ClaimBingoWrite(playerId)
  \/ \E roomId \in RaceRoomIds : ResetGame(roomId)
  \/ \E roomId \in RaceRoomIds : TickWarmup(roomId)
  \/ \E h \in Handles : TickInterval(h)
  \/ \E i \in TickSlots : TickRead(i)
  \/ \E i \in TickSlots : TickDecide(i)
  \/ \E i \in TickSlots : TickWrite(i)
  \/ \E i \in TickSlots : TickFetch(i)
  \/ \E i \in TickSlots : TickEmit(i)
  \/ \E i \in TickSlots : TickStop(i)
  \/ \E i \in TickSlots, n \in 1 .. MaxNumber : TickCall(i, n)

(***************************************************************************)
(* Room membership: claims                                                 *)
(***************************************************************************)
\* C1: after completed joinRoom and leaveRoom calls every room's prize is
\* players.length * stake; a room just created has prize 0 and no players
C1_PrizeIsPlayersTimesStake ==
  /\ \A r \in DOMAIN rooms : rooms[r].prize = Len(rooms[r].players) * rooms[r].stake
  /\ last.op = "createRoom" =>
       rooms[last.roomId].prize = 0 /\ rooms[last.roomId].players = <<>>

\* C1 witness: a leave took one of two members out of a room, a positive prize remains
C1_Witness ==
  /\ last.op = "leaveRoom" /\ last.success
  /\ Len(rooms[last.roomId].players) = 1
  /\ rooms[last.roomId].prize = rooms[last.roomId].stake

\* C2: every player id appears at most once in room.players
C2_NoDuplicatePlayerIds ==
  \A r \in DOMAIN rooms :
    \A i, j \in 1 .. Len(rooms[r].players) :
      rooms[r].players[i].id = rooms[r].players[j].id => i = j

\* C3: no room holds more than maxPlayers players, and a join to a room that
\* holds maxPlayers players fails with 'Room is full' and changes no room
C3_CapacityRespected ==
  [][/\ \A r \in DOMAIN rooms' : Len(rooms'[r].players) <= rooms'[r].maxPlayers
     /\ (/\ last'.op = "joinRoom"
         /\ last'.roomId \in DOMAIN rooms
         /\ Len(rooms[last'.roomId].players) >= rooms[last'.roomId].maxPlayers)
        => (~last'.success /\ last'.message = "Room is full" /\ rooms' = rooms)
    ]_vars

\* C3 witness: a join was refused because the room was full
C3_Witness ==
  /\ last.op = "joinRoom" /\ ~last.success /\ last.message = "Room is full"
  /\ Len(rooms[last.roomId].players) = rooms[last.roomId].maxPlayers


(***************************************************************************)
(* The in-memory module (gameState.ts, resetRoomState)                     *)
(***************************************************************************)
MemRoomIds == {"room1", "room2"}
\* the room the game specification plays in
GameRoomIds == {"room1"}
MemStake == [r \in MemRoomIds |-> IF r = "room1" THEN 10 ELSE 20]
Sockets == {"ws1", "ws2"}
MemHandles == 1 .. (Cardinality(MemRoomIds) + 1)
\* player.currentRoom === undefined
NoRoom == ""
\* room.gameInterval === undefined, room.currentNumber === undefined
Undefined == 0

\* two of the four initialRooms; activeGames and hasBonus, which no operation
\* reads, are left out
InitialRoom(r) ==
  [stake |-> MemStake[r], players |-> 0, prize |-> 0, status |-> "waiting",
   connectedPlayers |-> {}, selectedBoards |-> EmptyMap, startTime |-> FALSE,
   calledNumbers |-> <<>>, currentNumber |-> Undefined, gameInterval |-> Undefined,
   winner |-> ""]

Mem ==
  [rooms |-> memRooms, players |-> memPlayers, connections |-> connections,
   live |-> memLive, promos |-> memPromos, resets |-> memResets]

Max(a, b) == IF a >= b THEN a ELSE b

stopNumberCalling(m, roomId) ==
  IF m.rooms[roomId].gameInterval # Undefined
  THEN [m EXCEPT !.live = Del(m.live, m.rooms[roomId].gameInterval),
                 !.rooms[roomId].gameInterval = Undefined]
  ELSE m

\* a reset that leaves the interval running
resetRoomStateNoStop(m, roomId) ==
  [m EXCEPT !.rooms[roomId] =
     [@ EXCEPT !.status = "waiting", !.calledNumbers = <<>>,
               !.currentNumber = Undefined, !.prize = 0, !.players = 0,
               !.winner = "", !.selectedBoards = EmptyMap, !.connectedPlayers = {}]]

resetRoomState(m, roomId) ==
  LET m1 == stopNumberCalling(m, roomId) IN
  [m1 EXCEPT !.rooms[roomId] =
     [@ EXCEPT !.status = "waiting", !.calledNumbers = <<>>,
               !.currentNumber = Undefined, !.prize = 0, !.players = 0,
               !.winner = "", !.selectedBoards = EmptyMap, !.connectedPlayers = {}]]

\* the entries of selectedBoards that are not the player's
WithoutPlayerBoards(selectedBoards, playerId) ==
  [b \in {x \in DOMAIN selectedBoards : selectedBoards[x] # playerId} |->
     selectedBoards[b]]

leaveRoom(m, playerId, roomId) ==
  IF roomId \notin DOMAIN m.rooms \/ playerId \notin DOMAIN m.players
  THEN [m |-> m, success |-> FALSE]
  ELSE
    LET m1 == [m EXCEPT !.rooms[roomId] =
                 [@ EXCEPT !.connectedPlayers = @ \ {playerId},
                           !.players = Max(0, @ - 1),
                           !.selectedBoards = WithoutPlayerBoards(@, playerId)]]
        m2 == IF m1.rooms[roomId].connectedPlayers = {}
              THEN resetRoomState(m1, roomId)
              ELSE m1
        m3 == IF m2.players[playerId].currentRoom = roomId
              THEN [m2 EXCEPT !.players[playerId].currentRoom = NoRoom]
              ELSE m2
    IN [m |-> m3, success |-> TRUE]

\* a join that does not leave the room the player is in
joinRoomKeepsCurrent(m, playerId, roomId) ==
  IF roomId \notin DOMAIN m.rooms \/ playerId \notin DOMAIN m.players
  THEN [m |-> m, success |-> FALSE]
  ELSE IF playerId \in m.rooms[roomId].connectedPlayers
  THEN [m |-> m, success |-> TRUE]
  ELSE
    LET m2 == [m EXCEPT !.rooms[roomId].connectedPlayers = @ \cup {playerId},
                        !.players[playerId].currentRoom = roomId]
        size == Cardinality(m2.rooms[roomId].connectedPlayers)
    IN [m |-> [m2 EXCEPT !.rooms[roomId].players = size], success |-> TRUE]

joinRoom(m, playerId, roomId) ==
  IF roomId \notin DOMAIN m.rooms \/ playerId \notin DOMAIN m.players
  THEN [m |-> m, success |-> FALSE]
  ELSE IF playerId \in m.rooms[roomId].connectedPlayers
  THEN [m |-> m, success |-> TRUE]
  ELSE
    LET current == m.players[playerId].currentRoom
        m1 == IF current # NoRoom /\ current # roomId
              THEN leaveRoom(m, playerId, current).m
              ELSE m
        m2 == [m1 EXCEPT !.rooms[roomId].connectedPlayers = @ \cup {playerId},
                         !.players[playerId].currentRoom = roomId]
        size == Cardinality(m2.rooms[roomId].connectedPlayers)
        m3 == [m2 EXCEPT !.rooms[roomId].players = size]
        m4 == IF m3.rooms[roomId].status \in {"active", "starting"}
              THEN [m3 EXCEPT !.rooms[roomId].prize = m3.rooms[roomId].stake * size]
              ELSE m3
    IN [m |-> m4, success |-> TRUE]

addPlayer(m, playerId, websocket) ==
  [m EXCEPT !.players = Put(m.players, playerId,
                            [currentRoom |-> NoRoom, websocket |-> websocket]),
            !.connections = Put(m.connections, websocket, playerId)]

removePlayer(m, playerId) ==
  IF playerId \in DOMAIN m.players
  THEN
    LET player == m.players[playerId]
        m1 == IF player.currentRoom # NoRoom
              THEN leaveRoom(m, playerId, player.currentRoom).m
              ELSE m
    IN [m1 EXCEPT !.connections = Del(m1.connections, player.websocket),
                  !.players = Del(m1.players, playerId)]
  ELSE m

PreviousBoardsNone(selectedBoards, playerId, boardId) == {}

\* the first entry, in insertion order, that the player holds on another board
\* (the loop breaks after one); the model keeps no insertion order and takes
\* the lowest such board id

PreviousBoards(selectedBoards, playerId, boardId) ==
  LET held == {b \in DOMAIN selectedBoards :
                 selectedBoards[b] = playerId /\ b # boardId}
  IN IF held = {} THEN {} ELSE {CHOOSE b \in held : \A c \in held : b <= c}

\* log is the line the call writes when it releases a board
selectBoard(m, playerId, roomId, boardId) ==
  IF roomId \notin DOMAIN m.rooms \/ playerId \notin DOMAIN m.players
  THEN [m |-> m, success |-> FALSE, log |-> ""]
  ELSE
    LET selectedBoards == m.rooms[roomId].selectedBoards IN
    IF boardId \in DOMAIN selectedBoards /\ selectedBoards[boardId] # playerId
    THEN [m |-> m, success |-> FALSE, log |-> ""]
    ELSE
      LET released == PreviousBoards(selectedBoards, playerId, boardId)
          kept == [b \in DOMAIN selectedBoards \ released |-> selectedBoards[b]]
      IN [m |-> [m EXCEPT !.rooms[roomId].selectedBoards = Put(kept, boardId, playerId)],
          success |-> TRUE,
          log |-> IF released = {} THEN "" ELSE "unselected"]

startGameInRoom(m, roomId) ==
  IF roomId \notin DOMAIN m.rooms THEN [m |-> m, success |-> FALSE]
  ELSE IF m.rooms[roomId].status = "waiting"
  THEN
    LET size == Cardinality(m.rooms[roomId].connectedPlayers) IN
    [m |-> [m EXCEPT !.rooms[roomId] =
                       [@ EXCEPT !.status = "starting", !.startTime = TRUE,
                                 !.players = size,
                                 !.prize = m.rooms[roomId].stake * size,
                                 !.calledNumbers = <<>>, !.currentNumber = Undefined,
                                 !.winner = ""],
                     !.promos[roomId] = @ + 1],
     success |-> TRUE]
  ELSE [m |-> m, success |-> FALSE]

AvailableNumbersAll(room) == 1 .. MaxNumber

\* the numbers of the pool that callNextNumber may draw

AvailableNumbers(room) ==
  {i \in 1 .. MaxNumber : \A k \in 1 .. Len(room.calledNumbers) : room.calledNumbers[k] # i}

\* callNextNumber; n is the number Math.random picks when one is available
callNextNumber(m, roomId, n) ==
  IF roomId \notin DOMAIN m.rooms \/ m.rooms[roomId].status # "active" THEN m
  ELSE IF AvailableNumbers(m.rooms[roomId]) = {} THEN resetRoomState(m, roomId)
  ELSE [m EXCEPT !.rooms[roomId].calledNumbers = Append(@, n),
                 !.rooms[roomId].currentNumber = n]

MemFreshHandle(m) == CHOOSE h \in MemHandles \ DOMAIN m.live :
                       \A g \in MemHandles \ DOMAIN m.live : h <= g

startNumberCalling(m, roomId, n) ==
  IF roomId \notin DOMAIN m.rooms \/ m.rooms[roomId].status # "active" THEN m
  ELSE
    LET m1 == IF m.rooms[roomId].gameInterval # Undefined
              THEN [m EXCEPT !.live = Del(m.live, m.rooms[roomId].gameInterval)]
              ELSE m
        h == MemFreshHandle(m1)
        m2 == [m1 EXCEPT !.live = Put(m1.live, h, roomId),
                         !.rooms[roomId].gameInterval = h]
    IN callNextNumber(m2, roomId, n)

\* the setTimeout callback of startGameInRoom, 40 seconds after the start
promotion(m, roomId, n) ==
  LET m0 == [m EXCEPT !.promos[roomId] = @ - 1] IN
  IF roomId \in DOMAIN m.rooms /\ m.rooms[roomId].status = "starting"
  THEN startNumberCalling([m0 EXCEPT !.rooms[roomId].status = "active"], roomId, n)
  ELSE m0

\* a win that leaves the interval running
handleBingoWinNoStop(m, roomId, winnerPlayerId) ==
  IF roomId \notin DOMAIN m.rooms \/ winnerPlayerId \notin DOMAIN m.players
  THEN [m |-> m, success |-> FALSE]
  ELSE IF m.rooms[roomId].status = "game_over" THEN [m |-> m, success |-> FALSE]
  ELSE [m |-> [m EXCEPT !.rooms[roomId].status = "game_over",
                        !.rooms[roomId].winner = winnerPlayerId,
                        !.resets[roomId] = @ + 1],
        success |-> TRUE]

handleBingoWin(m, roomId, winnerPlayerId) ==
  IF roomId \notin DOMAIN m.rooms \/ winnerPlayerId \notin DOMAIN m.players
  THEN [m |-> m, success |-> FALSE]
  ELSE IF m.rooms[roomId].status = "game_over" THEN [m |-> m, success |-> FALSE]
  ELSE
    LET m1 == [m EXCEPT !.rooms[roomId].status = "game_over",
                        !.rooms[roomId].winner = winnerPlayerId]
        m2 == stopNumberCalling(m1, roomId)
    IN [m |-> [m2 EXCEPT !.resets[roomId] = @ + 1], success |-> TRUE]

(***************************************************************************)
(* In-memory module: calls and timers                                      *)
(***************************************************************************)
InitMem ==
  /\ memRooms = [r \in MemRoomIds |-> InitialRoom(r)]
  /\ memPlayers = EmptyMap
  /\ connections = EmptyMap
  /\ memLive = EmptyMap
  /\ memPromos = [r \in MemRoomIds |-> 0]
  /\ memResets = [r \in MemRoomIds |-> 0]

CommitMem(m) ==
  /\ memRooms' = m.rooms
  /\ memPlayers' = m.players
  /\ connections' = m.connections
  /\ memLive' = m.live
  /\ memPromos' = m.promos
  /\ memResets' = m.resets
  /\ UNCHANGED <<storeVars, asyncVars>>

MemWithinBounds(m) ==
  \A r \in MemRoomIds : m.promos[r] <= MaxPending /\ m.resets[r] <= MaxPending

\* a draw for the room: any available number, 0 when the pool is used up
Draws(m, roomId) ==
  IF AvailableNumbers(m.rooms[roomId]) = {} THEN {0} ELSE AvailableNumbers(m.rooms[roomId])

\* server.ts registers a player id once, on its first message
MemAddPlayer(playerId, websocket) ==
  /\ playerId \notin DOMAIN memPlayers
  /\ CommitMem(addPlayer(Mem, playerId, websocket))
  /\ last' = Call("addPlayer", "", playerId, 0, TRUE, "")

MemRemovePlayer(playerId) ==
  /\ playerId \in DOMAIN memPlayers
  /\ CommitMem(removePlayer(Mem, playerId))
  /\ last' = Call("removePlayer", memPlayers[playerId].currentRoom, playerId, 0, TRUE, "")

MemJoinRoom(playerId, roomId) ==
  LET res == joinRoom(Mem, playerId, roomId) IN
  /\ CommitMem(res.m)
  /\ last' = Call("joinRoom", roomId, playerId, 0, res.success, "")

MemLeaveRoom(playerId, roomId) ==
  LET res == leaveRoom(Mem, playerId, roomId) IN
  /\ CommitMem(res.m)
  /\ last' = Call("leaveRoom", roomId, playerId, 0, res.success, "")

MemSelectBoard(playerId, roomId, boardId) ==
  LET res == selectBoard(Mem, playerId, roomId, boardId) IN
  /\ CommitMem(res.m)
  /\ last' = Call("selectBoard", roomId, playerId, boardId, res.success, res.log)

\* startGameInRoom, with at most cap promotion timeouts pending for the room
MemStartGameWithin(roomId, cap) ==
  LET res == startGameInRoom(Mem, roomId) IN
  /\ res.m.promos[roomId] <= cap
  /\ CommitMem(res.m)
  /\ last' = Call("startGameInRoom", roomId, "", 0, res.success, "")

MemStartGame(roomId) == MemStartGameWithin(roomId, MaxPending)

MemPromotionFires(roomId) ==
  /\ memPromos[roomId] > 0
  /\ \E n \in Draws(Mem, roomId) :
       /\ CommitMem(promotion(Mem, roomId, n))
       /\ last' = Call("promotion", roomId, "", n, TRUE, "")

MemIntervalFires(h) ==
  /\ h \in DOMAIN memLive
  /\ \E n \in Draws(Mem, memLive[h]) :
       /\ CommitMem(callNextNumber(Mem, memLive[h], n))
       /\ last' = Call("callNextNumber", memLive[h], "", n, TRUE, "")

MemBingoWin(roomId, playerId) ==
  LET res == handleBingoWin(Mem, roomId, playerId) IN
  /\ MemWithinBounds(res.m)
  /\ CommitMem(res.m)
  /\ last' = Call("handleBingoWin", roomId, playerId, 0, res.success, "")

\* the setTimeout callback of handleBingoWin, 10 seconds after the win
MemPostWinReset(roomId) ==
  /\ memResets[roomId] > 0
  /\ CommitMem(resetRoomState([Mem EXCEPT !.resets[roomId] = @ - 1], roomId))
  /\ last' = Call("postWinReset", roomId, "", 0, TRUE, "")

\* one room through its game: members come and go, the game starts, numbers are
\* called, bingo is claimed, the room resets
NextMemGame ==
  \/ \E playerId \in PlayerIds, websocket \in Sockets : MemAddPlayer(playerId, websocket)
  \/ \E playerId \in PlayerIds : MemRemovePlayer(playerId)
  \/ \E playerId \in PlayerIds, roomId \in GameRoomIds : MemJoinRoom(playerId, roomId)
  \/ \E playerId \in PlayerIds, roomId \in GameRoomIds : MemLeaveRoom(playerId, roomId)
  \/ \E roomId \in GameRoomIds : MemStartGame(roomId)
  \/ \E roomId \in MemRoomIds : MemPromotionFires(roomId)
  \/ \E h \in MemHandles : MemIntervalFires(h)
  \/ \E roomId \in GameRoomIds, playerId \in PlayerIds : MemBingoWin(roomId, playerId)
  \/ \E roomId \in MemRoomIds : MemPostWinReset(roomId)

\* membership and board selection over all rooms
NextMemBoards ==
  \/ \E playerId \in PlayerIds, websocket \in Sockets : MemAddPlayer(playerId, websocket)
  \/ \E playerId \in PlayerIds : MemRemovePlayer(playerId)
  \/ \E playerId \in PlayerIds, roomId \in MemRoomIds : MemJoinRoom(playerId, roomId)
  \/ \E playerId \in PlayerIds, roomId \in MemRoomIds : MemLeaveRoom(playerId, roomId)
  \/ \E playerId \in PlayerIds, roomId \in MemRoomIds, boardId \in BoardIds :
       MemSelectBoard(playerId, roomId, boardId)

(***************************************************************************)
(* In-memory server: handleWebSocketMessage and the close handler          *)
(***************************************************************************)
\* message.roomId of a room that does not exist, and an absent field
UnknownRoom == "room9"
Absent == ""
\* message.boardId absent
NoBoard == 0
MessageTypes == {"join_room", "leave_room", "select_board", "start_game", "ping"}

\* the messages a client sends; playerName is TRUE when the field is present,
\* and only select_board messages carry a boardId
Messages ==
  {message \in [type : MessageTypes, playerId : PlayerIds,
                 roomId : GameRoomIds \cup {UnknownRoom, Absent},
                 boardId : BoardIds \cup {NoBoard}, playerName : BOOLEAN] :
     message.type # "select_board" => message.boardId = NoBoard}

\* what the handler did with a message: the state, whether the command was
\* applied, and the number of error messages sent to the sender
Handled(m, applied, errors) == [m |-> m, applied |-> applied, errors |-> errors]

\* the switch of handleWebSocketMessage, for a registered player
HandleCommand(m, playerId, message) ==
  IF message.type = "join_room"
  THEN IF message.roomId # Absent /\ message.playerName
       THEN LET res == joinRoom(m, playerId, message.roomId)
            IN Handled(res.m, res.success, IF res.success THEN 0 ELSE 1)
       ELSE Handled(m, FALSE, 0)
  ELSE IF message.type = "leave_room"
  THEN IF message.roomId # Absent
       THEN LET res == leaveRoom(m, playerId, message.roomId)
            IN Handled(res.m, res.success, 0)
       ELSE Handled(m, FALSE, 0)
  ELSE IF message.type = "select_board"
  THEN IF message.roomId # Absent /\ message.boardId # NoBoard
       THEN LET res == selectBoard(m, playerId, message.roomId, message.boardId)
            IN Handled(res.m, res.success, IF res.success THEN 0 ELSE 1)
       ELSE Handled(m, FALSE, 0)
  ELSE IF message.type = "start_game"
  THEN IF message.roomId # Absent
       THEN LET res == startGameInRoom(m, message.roomId)
            IN Handled(res.m, res.success, IF res.success THEN 0 ELSE 1)
       ELSE Handled(m, FALSE, 0)
  ELSE Handled(m, FALSE, 1)

\* handleWebSocketMessage: the sender is registered or its socket is updated,
\* then the command is dispatched
HandleWebSocketMessage(m, ws, message) ==
  LET playerId == message.playerId IN
  IF playerId \notin DOMAIN m.players
  THEN IF message.playerName
       THEN HandleCommand(addPlayer(m, playerId, ws), playerId, message)
       ELSE Handled(m, FALSE, 1)
  ELSE IF m.players[playerId].websocket # ws
  THEN HandleCommand(
         [m EXCEPT !.connections = Put(Del(@, m.players[playerId].websocket), ws, playerId),
                   !.players[playerId].websocket = ws],
         playerId, message)
  ELSE HandleCommand(m, playerId, message)

\* a client's message arrives on its socket
MemMessage(ws, message) ==
  LET res == HandleWebSocketMessage(Mem, ws, message) IN
  /\ MemWithinBounds(res.m)
  /\ CommitMem(res.m)
  /\ last' = Call(message.type, message.roomId, message.playerId, res.errors,
                  res.applied, "")

\* ws.on("close"): the player bound to the socket is removed
MemClose(ws) ==
  /\ ws \in DOMAIN connections
  /\ CommitMem(removePlayer(Mem, connections[ws]))
  /\ last' = Call("close", "", connections[ws], 0, TRUE, "")

\* each client holds one connection of its own
OwnSocket == [p \in PlayerIds |-> IF p = "p1" THEN "ws1" ELSE "ws2"]

\* clients send messages and disconnect; the timers of started games fire
NextServer ==
  \/ \E message \in Messages : MemMessage(OwnSocket[message.playerId], message)
  \/ \E ws \in Sockets : MemClose(ws)
  \/ \E roomId \in MemRoomIds : MemPromotionFires(roomId)
  \/ \E h \in MemHandles : MemIntervalFires(h)

\* the messages by which clients enter and leave the rooms
MembershipMessages ==
  {message \in Messages : /\ message.type \in {"join_room", "leave_room"}
                          /\ message.roomId \in GameRoomIds}

\* nothing ties a player id to a socket: any socket sends under any playerId
NextSockets ==
  \/ \E ws \in Sockets, message \in MembershipMessages : MemMessage(ws, message)
  \/ \E ws \in Sockets : MemClose(ws)

\* players move between the rooms while the game of room1 is started, runs, is
\* won and is reset
NextMemRooms ==
  \/ \E playerId \in PlayerIds : MemAddPlayer(playerId, OwnSocket[playerId])
  \/ \E playerId \in PlayerIds : MemRemovePlayer(playerId)
  \/ \E playerId \in PlayerIds, roomId \in MemRoomIds : MemJoinRoom(playerId, roomId)
  \/ \E playerId \in PlayerIds, roomId \in MemRoomIds : MemLeaveRoom(playerId, roomId)
  \/ \E roomId \in GameRoomIds : MemStartGame(roomId)
  \/ \E roomId \in MemRoomIds : MemPromotionFires(roomId)
  \/ \E h \in MemHandles : MemIntervalFires(h)
  \/ \E roomId \in GameRoomIds, playerId \in PlayerIds : MemBingoWin(roomId, playerId)
  \/ \E roomId \in MemRoomIds : MemPostWinReset(roomId)

\* one room with its members, their boards, and a game that is started, runs and
\* is reset when the room empties
NextMemReset ==
  \/ \E playerId \in PlayerIds : MemAddPlayer(playerId, OwnSocket[playerId])
  \/ \E playerId \in PlayerIds : MemRemovePlayer(playerId)
  \/ \E playerId \in PlayerIds, roomId \in GameRoomIds : MemJoinRoom(playerId, roomId)
  \/ \E playerId \in PlayerIds, roomId \in GameRoomIds : MemLeaveRoom(playerId, roomId)
  \/ \E playerId \in PlayerIds, roomId \in GameRoomIds, boardId \in BoardIds :
       MemSelectBoard(playerId, roomId, boardId)
  \/ \E roomId \in GameRoomIds : MemStartGame(roomId)
  \/ \E roomId \in GameRoomIds : MemPromotionFires(roomId)
  \/ \E h \in MemHandles : MemIntervalFires(h)

(***************************************************************************)
(* Store-backed server: joinRoom calls that interleave at their awaits     *)
(***************************************************************************)
\* a joinRoom in flight: the room it read, changed in place, and the member it evicts
JoinCall(pc, roomId, player, room, old) ==
  [pc |-> pc, roomId |-> roomId, player |-> player, room |-> room, old |-> old]

JoinReturns(playerId, call) ==
  /\ last' = call
  /\ joinCalls' = [joinCalls EXCEPT ![playerId] = Idle]

\* await getRoom and the three refusals
JoinRoomRead(roomId, player) ==
  /\ joinCalls[player.id].pc = "idle"
  /\ LET res == IF roomId \notin DOMAIN rooms THEN "Room not found"
                ELSE IF RoomIsFull(rooms[roomId]) THEN "Room is full"
                ELSE IF rooms[roomId].status # "waiting" THEN "Game already started"
                ELSE ""
     IN IF res # ""
        THEN /\ last' = Call("joinRoom", roomId, player.id, player.telegramId, FALSE, res)
             /\ UNCHANGED joinCalls
        ELSE /\ joinCalls' = [joinCalls EXCEPT ![player.id] =
                                JoinCall("session", roomId, player, rooms[roomId], "")]
             /\ UNCHANGED last
  /\ UNCHANGED <<storeVars, memVars, boardCalls, claimCalls, ticks>>

\* await getPlayerSession, leaveRoom of the previous room, then the check for a
\* member under the same telegramId or, for a guest, the same id
JoinRoomSession(playerId) ==
  /\ joinCalls[playerId].pc = "session"
  /\ LET call == joinCalls[playerId]
         player == call.player
         s1 == IF playerId \in DOMAIN sessions /\ sessions[playerId] # call.roomId
               THEN LeaveRoomOp(Store, sessions[playerId], playerId).s
               ELSE Store
         hasTelegram == player.telegramId # NoTelegram
         tgIndex == IF hasTelegram
                    THEN FindIndexByTelegram(call.room.players, player.telegramId)
                    ELSE 0
         evict == tgIndex # 0 /\ call.room.players[tgIndex].id # playerId
     IN /\ CommitStore(s1)
        /\ joinCalls' = [joinCalls EXCEPT ![playerId] =
             IF evict
             THEN JoinCall("evictSession", call.roomId, player,
                           [call.room EXCEPT !.players =
                              SelectSeq(@, LAMBDA p : p.telegramId # player.telegramId)],
                           call.room.players[tgIndex].id)
             ELSE IF ~hasTelegram /\ FindIndexById(call.room.players, playerId) # 0
             THEN [call EXCEPT !.pc = "already"]
             ELSE [call EXCEPT !.pc = "cleanup"]]
  /\ UNCHANGED <<boardCalls, claimCalls, ticks, last>>

\* await removePlayerSession(existingTelegramPlayer.id)
JoinRoomEvictSession(playerId) ==
  /\ joinCalls[playerId].pc = "evictSession"
  /\ CommitStore(RemovePlayerSession(Store, joinCalls[playerId].old))
  /\ joinCalls' = [joinCalls EXCEPT ![playerId].pc = "evictBoards"]
  /\ UNCHANGED <<boardCalls, claimCalls, ticks, last>>

\* await removePlayerFromAllBoardSelections(existingTelegramPlayer.id)
JoinRoomEvictBoards(playerId) ==
  /\ joinCalls[playerId].pc = "evictBoards"
  /\ CommitStore(RemovePlayerFromAllBoardSelections(Store, joinCalls[playerId].old))
  /\ joinCalls' = [joinCalls EXCEPT ![playerId].pc = "cleanup"]
  /\ UNCHANGED <<boardCalls, claimCalls, ticks, last>>

\* a guest already in the room it read: await setPlayerSession and return
JoinRoomAlready(playerId) ==
  /\ joinCalls[playerId].pc = "already"
  /\ CommitStore(SetPlayerSession(Store, playerId, joinCalls[playerId].roomId))
  /\ JoinReturns(playerId, Call("joinRoom", joinCalls[playerId].roomId, playerId,
                                NoTelegram, TRUE, "Already in room"))
  /\ UNCHANGED <<boardCalls, claimCalls, ticks>>

\* await removePlayerByTelegramId / removePlayerFromAllRooms
JoinRoomCleanup(playerId) ==
  /\ joinCalls[playerId].pc = "cleanup"
  /\ LET player == joinCalls[playerId].player IN
     CommitStore(IF player.telegramId # NoTelegram
                 THEN RemovePlayerByTelegramId(Store, player.telegramId, playerId)
                 ELSE RemovePlayerFromAllRooms(Store, playerId))
  /\ joinCalls' = [joinCalls EXCEPT ![playerId].pc = "write"]
  /\ UNCHANGED <<boardCalls, claimCalls, ticks, last>>

\* the player is pushed on the call's copy of the room, the prize and the
\* auto-start are computed on it, and the copy is written: await setRoom
JoinRoomWrite(playerId) ==
  /\ joinCalls[playerId].pc = "write"
  /\ LET call == joinCalls[playerId]
         room1 == RecomputePrize([call.room EXCEPT !.players = Append(@, call.player)])
         start == AutoStart(Len(room1.players), room1.maxPlayers)
         room2 == IF start THEN [room1 EXCEPT !.status = "starting"] ELSE room1
         s1 == IF start THEN [Store EXCEPT !.promos[call.roomId] = @ + 1] ELSE Store
     IN /\ s1.promos[call.roomId] <= MaxPending
        /\ CommitStore(SetRoom(s1, call.roomId, room2))
        /\ joinCalls' = [joinCalls EXCEPT ![playerId] =
                           [call EXCEPT !.pc = "return", !.room = room2]]
  /\ UNCHANGED <<boardCalls, claimCalls, ticks, last>>

\* await setPlayerSession and the return of { success: true, room }
JoinRoomReturn(playerId) ==
  /\ joinCalls[playerId].pc = "return"
  /\ CommitStore(SetPlayerSession(Store, playerId, joinCalls[playerId].roomId))
  /\ JoinReturns(playerId, Call("joinRoom", joinCalls[playerId].roomId, playerId,
                                joinCalls[playerId].player.telegramId, TRUE, ""))
  /\ UNCHANGED <<boardCalls, claimCalls, ticks>>

\* joinRoom calls of the players on one room take their steps in any order;
\* the promotion timeout runs in between and nobody leaves
NextJoin ==
  \/ \E roomId \in RaceRoomIds, id \in PlayerIds, telegramId \in TelegramIds :
       JoinRoomRead(roomId, [id |-> id, telegramId |-> telegramId])
  \/ \E playerId \in PlayerIds : JoinRoomSession(playerId)
  \/ \E playerId \in PlayerIds : JoinRoomEvictSession(playerId)
  \/ \E playerId \in PlayerIds : JoinRoomEvictBoards(playerId)
  \/ \E playerId \in PlayerIds : JoinRoomAlready(playerId)
  \/ \E playerId \in PlayerIds : JoinRoomCleanup(playerId)
  \/ \E playerId \in PlayerIds : JoinRoomWrite(playerId)
  \/ \E playerId \in PlayerIds : JoinRoomReturn(playerId)
  \/ \E roomId \in RaceRoomIds : PromotionFires(roomId)

\* no call of the store-backed server is in flight
InitAsync ==
  /\ boardCalls = [p \in PlayerIds |-> Idle]
  /\ claimCalls = [p \in PlayerIds |-> Idle]
  /\ ticks = [i \in TickSlots |-> Idle]
  /\ joinCalls = [p \in PlayerIds |-> Idle]

InitRoom ==
  /\ \E capacity \in (1 .. MaxCapacity) \cup {DefaultMaxPlayers} : InitStore(capacity)
  /\ InitMem
  /\ InitAsync
  /\ last = NoCall

SpecRoom == InitRoom /\ [][NextRoom]_vars

InitMemory == InitStore(DefaultMaxPlayers) /\ InitMem /\ InitAsync /\ last = NoCall

SpecFind == InitRoom /\ [][NextFind]_vars

SpecMemGame == InitMemory /\ [][NextMemGame]_vars

SpecMemBoards == InitMemory /\ [][NextMemBoards]_vars

SpecMemReset == InitMemory /\ [][NextMemReset]_vars

SpecMemRooms == InitMemory /\ [][NextMemRooms]_vars

SpecServer == InitMemory /\ [][NextServer]_vars

SpecSockets == InitMemory /\ [][NextSockets]_vars


SpecBoard == InitMemory /\ [][NextBoard]_vars

SpecGame == InitMemory /\ [][NextGame]_vars

\* the default room (stake 10, maxPlayers 100) with up to three guests; games are
\* started, claimed (by p1) and reset by client commands
NextPrize ==
  \/ \E roomId \in RaceRoomIds, playerId \in Guests : GuestJoins(roomId, playerId)
  \/ \E roomId \in RaceRoomIds, playerId \in Guests : LeaveRoom(roomId, playerId)
  \/ \E roomId \in RaceRoomIds : StartGame(roomId)
  \/ \E playerId \in {"p1"}, roomId \in RaceRoomIds : ClaimBingoRead(playerId, roomId)
  \/ \E playerId \in {"p1"} : ClaimBingoPush(playerId)
  \/ \E playerId \in {"p1"} : ClaimBingoWrite(playerId)
  \/ \E roomId \in RaceRoomIds : ResetGame(roomId)
  \/ \E roomId \in RaceRoomIds : WarmupFires(roomId)
  \/ \E h \in Handles : IntervalFires(h)

SpecPrize == InitMemory /\ [][NextPrize]_vars

\* the store-backed server alone, calls applied one at a time: membership, the
\* promotion, games started and reset by command, the scheduler
StoreRuns ==
  /\ InitMem
  /\ \/ \E roomId \in RaceRoomIds, id \in PlayerIds, telegramId \in TelegramIds :
          JoinRoom(roomId, [id |-> id, telegramId |-> telegramId])
     \/ \E roomId \in RaceRoomIds, playerId \in PlayerIds : LeaveRoom(roomId, playerId)
     \/ \E roomId \in RaceRoomIds : PromotionFires(roomId)
     \/ \E roomId \in RaceRoomIds : WarmupFires(roomId)
     \/ \E h \in Handles : IntervalFires(h)
     \/ \E roomId \in RaceRoomIds : StartGame(roomId)
     \/ \E roomId \in RaceRoomIds : ResetGame(roomId)

\* the in-memory server alone
MemoryRuns ==
  /\ InitStore(MaxCapacity) /\ InitAsync
  /\ NextMemGame

\* the two implementations are two programs: a run is a run of one of them
NextBoth == StoreRuns \/ MemoryRuns

\* the default room with a capacity at which two players auto-start it
InitLive == InitStore(MaxCapacity) /\ InitMem /\ InitAsync /\ last = NoCall

\* what clients send: nothing obliges them to send anything
ClientCommand ==
  \/ \E roomId \in RaceRoomIds, playerId \in PlayerIds : GuestJoins(roomId, playerId)
  \/ \E roomId \in RaceRoomIds, playerId \in PlayerIds : LeaveRoom(roomId, playerId)
  \/ \E roomId \in RaceRoomIds : StartGame(roomId)
  \/ \E roomId \in RaceRoomIds : ResetGame(roomId)
  \/ \E roomId \in RaceRoomIds : ClaimBingoRead("p1", roomId)

\* what the server does on its own: timers fire and awaited store calls return
ServerStep ==
  \/ ClaimBingoPush("p1")
  \/ ClaimBingoWrite("p1")
  \/ \E roomId \in RaceRoomIds : PromotionFires(roomId)
  \/ \E roomId \in RaceRoomIds : TickWarmup(roomId)
  \/ \E h \in Handles : TickInterval(h)
  \/ \E i \in TickSlots : TickRead(i)
  \/ \E i \in TickSlots : TickDecide(i)
  \/ \E i \in TickSlots : TickWrite(i)
  \/ \E i \in TickSlots : TickFetch(i)
  \/ \E i \in TickSlots : TickEmit(i)
  \/ \E i \in TickSlots : TickStop(i)
  \/ \E i \in TickSlots, n \in 1 .. MaxNumber : TickCall(i, n)

NextLive == ClientCommand \/ ServerStep

\* every pending timer fires and every awaited store call returns
Fairness ==
  /\ WF_vars(ClaimBingoPush("p1"))
  /\ WF_vars(ClaimBingoWrite("p1"))
  /\ WF_vars(\E roomId \in RaceRoomIds : PromotionFires(roomId))
  /\ WF_vars(\E roomId \in RaceRoomIds : TickWarmup(roomId))
  /\ WF_vars(\E h \in Handles : TickInterval(h))
  /\ WF_vars(\E i \in TickSlots : TickRead(i))
  /\ WF_vars(\E i \in TickSlots : TickDecide(i))
  /\ WF_vars(\E i \in TickSlots : TickWrite(i))
  /\ WF_vars(\E i \in TickSlots : TickFetch(i))
  /\ WF_vars(\E i \in TickSlots : TickEmit(i))
  /\ WF_vars(\E i \in TickSlots : TickStop(i))
  /\ WF_vars(\E i \in TickSlots, n \in 1 .. MaxNumber : TickCall(i, n))

SpecLive == InitLive /\ [][NextLive]_vars /\ Fairness

SpecBoth == InitLive /\ [][NextBoth]_vars

SpecJoin == InitLive /\ [][NextJoin]_vars

\* games of one room are started, reset and started again while the warm-up
\* timeouts of earlier starts are still pending
NextWarmup ==
  \/ \E roomId \in RaceRoomIds, playerId \in PlayerIds : GuestJoins(roomId, playerId)
  \/ \E roomId \in RaceRoomIds, playerId \in PlayerIds : LeaveRoom(roomId, playerId)
  \/ \E roomId \in RaceRoomIds : StartGameWithin(roomId, MaxWarmups)
  \/ \E roomId \in RaceRoomIds : ResetGame(roomId)
  \/ \E roomId \in RaceRoomIds : PromotionFires(roomId)
  \/ \E roomId \in RaceRoomIds : WarmupFires(roomId)
  \/ \E h \in Handles : IntervalFires(h)

SpecWarmup == InitLive /\ [][NextWarmup]_vars

\* the store-backed server: a room becomes starting, falls back to waiting and
\* becomes starting again while promotion timeouts are pending
StorePromotes ==
  /\ InitMem
  /\ \/ \E roomId \in RaceRoomIds, playerId \in PlayerIds :
          GuestJoinsWithin(roomId, playerId, MaxPromotions)
     \/ \E roomId \in RaceRoomIds, playerId \in PlayerIds : LeaveRoom(roomId, playerId)
     \/ \E roomId \in RaceRoomIds : PromotionFires(roomId)
     \/ \E roomId \in RaceRoomIds : WarmupFires(roomId)
     \/ \E h \in Handles : IntervalFires(h)

\* the same for the in-memory server
MemoryPromotes ==
  /\ InitStore(MaxCapacity) /\ InitAsync
  /\ \/ \E playerId \in PlayerIds : MemAddPlayer(playerId, OwnSocket[playerId])
     \/ \E playerId \in PlayerIds, roomId \in GameRoomIds : MemJoinRoom(playerId, roomId)
     \/ \E playerId \in PlayerIds, roomId \in GameRoomIds : MemLeaveRoom(playerId, roomId)
     \/ \E roomId \in GameRoomIds : MemStartGameWithin(roomId, MaxPromotions)
     \/ \E roomId \in GameRoomIds : MemPromotionFires(roomId)
     \/ \E h \in MemHandles : MemIntervalFires(h)

NextPromotion == StorePromotes \/ MemoryPromotes

SpecPromotion == InitLive /\ [][NextPromotion]_vars

\* one room whose members join as guests or under a Telegram identity, leave,
\* and select boards
NextIdentity ==
  \/ \E roomId \in RaceRoomIds, id \in PlayerIds, telegramId \in TelegramIds :
       JoinRoom(roomId, [id |-> id, telegramId |-> telegramId])
  \/ \E roomId \in RaceRoomIds, playerId \in PlayerIds : LeaveRoom(roomId, playerId)
  \/ \E playerId \in PlayerIds, roomId \in RaceRoomIds, boardNumber \in BoardIds :
       SelectBoardRead(playerId, roomId, boardNumber)
  \/ \E playerId \in PlayerIds : SelectBoardRemove(playerId)
  \/ \E playerId \in PlayerIds : SelectBoardSet(playerId)
  \/ \E playerId \in PlayerIds : SelectBoardReturn(playerId)

SpecIdentity == InitLive /\ [][NextIdentity]_vars


(***************************************************************************)
(* In-memory module: claims                                                *)
(***************************************************************************)
\* C4: in every room calledNumbers has no duplicates and only numbers of the
\* pool, and currentNumber is undefined or the last element of calledNumbers
C4_CalledNumbersWellFormed ==
  \A r \in MemRoomIds :
    LET called == memRooms[r].calledNumbers IN
    /\ \A i, j \in 1 .. Len(called) : called[i] = called[j] => i = j
    /\ \A i \in 1 .. Len(called) : called[i] \in 1 .. MaxNumber
    /\ \/ memRooms[r].currentNumber = Undefined
       \/ (Len(called) > 0 /\ memRooms[r].currentNumber = called[Len(called)])

\* C4 witness: an interval tick drew the second number of an active game
C4_Witness ==
  /\ last.op = "callNextNumber"
  /\ memRooms[last.roomId].status = "active"
  /\ Len(memRooms[last.roomId].calledNumbers) >= 2
  /\ memRooms[last.roomId].currentNumber = last.arg

BoardsOf(room, playerId) ==
  {b \in DOMAIN room.selectedBoards : room.selectedBoards[b] = playerId}

\* C5: a player holds at most one board of a room (a board has one holder, the
\* value selectedBoards maps it to), and after a successful selectBoard(p, room, b)
\* the only board p holds in the room is b
C5_OneBoardPerPlayer ==
  /\ \A r \in MemRoomIds, playerId \in PlayerIds :
       Cardinality(BoardsOf(memRooms[r], playerId)) <= 1
  /\ (last.op = "selectBoard" /\ last.success) =>
       BoardsOf(memRooms[last.roomId], last.playerId) = {last.arg}

\* C5 witness: a successful selectBoard released the board the player held before
C5_Witness ==
  /\ last.op = "selectBoard" /\ last.success /\ last.message = "unselected"
  /\ BoardsOf(memRooms[last.roomId], last.playerId) = {last.arg}

(***************************************************************************)
(* Store-backed server: claims about interleaved calls                     *)
(***************************************************************************)
\* C6: no board number of a room is recorded for two players at once, however two
\* selectBoard calls for it interleave at their awaits on the store
C6_NoBoardHeldTwice ==
  \A x, y \in selections :
    (x.roomId = y.roomId /\ x.boardNumber = y.boardNumber) => x.playerId = y.playerId

\* C7: a selectBoard that finds the board held by another player returns
\* success=false with a message, at once, and the board selections stay as they
\* were
C7_BoardTakenRefused ==
  [][ \A playerId \in PlayerIds, roomId \in RoomIds, boardNumber \in BoardIds :
        ( /\ SelectBoardRead(playerId, roomId, boardNumber)
          /\ \E x \in selections : /\ x.roomId = roomId
                                    /\ x.boardNumber = boardNumber
                                    /\ x.playerId # playerId )
        => /\ last'.op = "selectBoard" /\ last'.playerId = playerId
           /\ last'.roomId = roomId /\ last'.arg = boardNumber
           /\ ~last'.success /\ last'.message # ""
           /\ selections' = selections
           /\ boardCalls'[playerId].pc = "idle" ]_vars

\* C7 witness: a selectBoard was refused for a board another player holds, and the
\* caller still holds the board it held before
C7_Witness ==
  /\ last.op = "selectBoard" /\ ~last.success
  /\ \E x \in selections : /\ x.roomId = last.roomId
                            /\ x.boardNumber = last.arg
                            /\ x.playerId # last.playerId
  /\ \E y \in selections : /\ y.roomId = last.roomId
                            /\ y.playerId = last.playerId
                            /\ y.boardNumber # last.arg

\* C8: once a game's winners list is non-empty its gameStatus is finished and no
\* step makes its calledNumbers longer
C8_NoCallAfterWin ==
  [][ \A roomId \in DOMAIN games :
        games[roomId].winners # <<>>
        => /\ games[roomId].gameStatus = "finished"
           /\ roomId \in DOMAIN games'
                => Len(games'[roomId].calledNumbers) <= Len(games[roomId].calledNumbers)
    ]_vars

\* C9: a claimBingo that finds the game state missing or not active returns
\* success=false at once; the stored game states (winners, gameStatus) and the
\* scheduler registry stay as they were
C9_ClaimRefusedUnlessActive ==
  [][ \A playerId \in PlayerIds, roomId \in RaceRoomIds :
        ( /\ ClaimBingoRead(playerId, roomId)
          /\ (roomId \notin DOMAIN games \/ games[roomId].gameStatus # "active") )
        => /\ last'.op = "claimBingo" /\ last'.playerId = playerId
           /\ last'.roomId = roomId /\ ~last'.success
           /\ games' = games
           /\ activeGameIntervals' = activeGameIntervals
           /\ liveIntervals' = liveIntervals
           /\ claimCalls'[playerId].pc = "idle" ]_vars

\* C9 witness: a claimBingo was refused on a game that is not active while the
\* room's scheduler is still registered
C9_Witness ==
  /\ last.op = "claimBingo" /\ ~last.success
  /\ last.roomId \in DOMAIN games
  /\ games[last.roomId].gameStatus # "active"
  /\ last.roomId \in DOMAIN activeGameIntervals

\* C10: a claimBingo issued when the game already has a winner is accepted (its
\* winner is going to be appended), and the game stays finished
C10_LateClaimAppended ==
  [][ \A playerId \in PlayerIds, roomId \in RaceRoomIds :
        ( /\ ClaimBingoRead(playerId, roomId)
          /\ roomId \in DOMAIN games
          /\ games[roomId].winners # <<>> )
        => /\ claimCalls'[playerId].pc = "push"
           /\ games'[roomId].gameStatus = "finished" ]_vars

(***************************************************************************)
(* Store-backed server: the prize after a win                              *)
(***************************************************************************)
\* C11: once a game has a winner, a successful leaveRoom by one of three or more
\* players (which resets nothing) leaves room.prize at its value at claim time
C11_PrizeFrozenAfterWin ==
  [][ \A roomId \in RaceRoomIds :
        ( /\ last'.op = "leaveRoom" /\ last'.success /\ last'.roomId = roomId
          /\ roomId \in DOMAIN games
          /\ games[roomId].winners # <<>>
          /\ Len(rooms[roomId].players) >= 3 )
        => rooms'[roomId].prize = rooms[roomId].prize ]_vars

(***************************************************************************)
(* Store-backed server: what happens eventually                            *)
(***************************************************************************)
\* a client command other than a successful claimBingo has returned
OtherCommand ==
  \/ last.op \in {"joinRoom", "leaveRoom", "startGame", "resetGame"}
  \/ (last.op = "claimBingo" /\ ~last.success)

\* C12: after a successful claimBingo in a room, unless a further client command
\* arrives, the room's status is eventually waiting again
C12_RoomWaitingAfterWin ==
  \A roomId \in RaceRoomIds :
    (last.op = "claimBingo" /\ last.success /\ last.roomId = roomId)
      ~> (rooms[roomId].status = "waiting" \/ OtherCommand)

(***************************************************************************)
(* Store-backed server: auto-start, promotion and resets                   *)
(***************************************************************************)
\* C13: a successful joinRoom that admits a player leaves the room starting exactly
\* when the new player count n has n >= 2 and n >= min(maxPlayers * 0.1, 10), that
\* is 10 * n >= maxPlayers or n >= 10; otherwise the room is still waiting
C13_AutoStartRule ==
  [][ (last'.op = "joinRoom" /\ last'.success /\ last'.message = "")
      => LET room == rooms'[last'.roomId]
             n == Len(room.players)
         IN room.status = IF n >= 2 /\ (10 * n >= room.maxPlayers \/ n >= 10)
                          THEN "starting"
                          ELSE "waiting" ]_vars

\* C13 witness: a join made the room starting
C13_Witness ==
  /\ last.op = "joinRoom" /\ last.success /\ last.message = ""
  /\ rooms[last.roomId].status = "starting"
  /\ Len(rooms[last.roomId].players) = 2

\* C14 as stated: in a room of stake 10 and maxPlayers 100 that two distinct
\* players have joined, the status is starting (or, after the promotion, active)
C14_DefaultRoomStartsAtTwo ==
  \A r \in DOMAIN rooms :
    ( /\ rooms[r].stake = DefaultStake /\ rooms[r].maxPlayers = DefaultMaxPlayers
      /\ Len(rooms[r].players) = 2
      /\ rooms[r].players[1].id # rooms[r].players[2].id )
    => rooms[r].status \in {"starting", "active"}

\* C14 amended: a room of maxPlayers 100 with fewer than 10 players is waiting;
\* where the second join reaches the threshold (maxPlayers <= 20) it leaves the room
\* starting; and a promotion that finds the room starting leaves it active with
\* gameStartTime set
C14_StartsAtThresholdThenActive ==
  [][ /\ \A r \in DOMAIN rooms' :
           (rooms'[r].maxPlayers = DefaultMaxPlayers /\ Len(rooms'[r].players) < 10)
           => rooms'[r].status = "waiting"
      /\ ( /\ last'.op = "joinRoom" /\ last'.success /\ last'.message = ""
           /\ Len(rooms'[last'.roomId].players) = 2
           /\ rooms'[last'.roomId].maxPlayers <= 20 )
         => rooms'[last'.roomId].status = "starting"
      /\ (last'.op = "promotion" /\ rooms[last'.roomId].status = "starting")
         => /\ rooms'[last'.roomId].status = "active"
            /\ rooms'[last'.roomId].gameStartTime = TRUE ]_vars

\* C14 witness: the promotion made a room of two players active
C14_Witness ==
  /\ last.op = "promotion"
  /\ rooms[last.roomId].status = "active"
  /\ rooms[last.roomId].gameStartTime = TRUE
  /\ Len(rooms[last.roomId].players) = 2

\* C15: in either implementation, a promotion callback that finds the room in a
\* status other than starting changes no room field and starts no number calling
\* (no interval, no warm-up, no number drawn)
C15_StalePromotionIsNoOp ==
  [][ /\ ( /\ last'.op = "promotion" /\ last'.roomId \in RoomIds
           /\ (last'.roomId \notin DOMAIN rooms
                 \/ rooms[last'.roomId].status # "starting") )
         => /\ rooms' = rooms /\ games' = games
            /\ activeGameIntervals' = activeGameIntervals
            /\ liveIntervals' = liveIntervals
            /\ warmups' = warmups
      /\ ( /\ last'.op = "promotion" /\ last'.roomId \in MemRoomIds
           /\ memRooms[last'.roomId].status # "starting" )
         => memRooms' = memRooms /\ memLive' = memLive ]_vars

\* C15 witness: a promotion of the store-backed server fired on a room that a
\* leave had returned to waiting
C15_Witness ==
  /\ last.op = "promotion" /\ last.roomId \in DOMAIN rooms
  /\ rooms[last.roomId].status = "waiting"
  /\ Len(rooms[last.roomId].players) = 1

\* C16: after the promotion made a room active, unless a leave, a claim or a reset
\* arrives, a first number is eventually called for the room
C16_FirstNumberAfterPromotion ==
  \A roomId \in RaceRoomIds :
    (last.op = "promotion" /\ last.roomId = roomId /\ rooms[roomId].status = "active")
      ~> \/ roomId \in DOMAIN games /\ games[roomId].calledNumbers # <<>>
         \/ rooms[roomId].calledNumbers # <<>>
         \/ last.op \in {"leaveRoom", "claimBingo", "resetGame"}

\* C17: a successful leaveRoom that leaves the room empty, or with fewer than 2
\* players when its status was not waiting, leaves the room waiting with
\* calledNumbers empty, currentNumber and gameStartTime cleared, and no scheduler
\* registered (no registry entry, no live interval) for the room
C17_LeaveResetsRoom ==
  [][ ( /\ last'.op = "leaveRoom" /\ last'.success
        /\ \/ Len(rooms'[last'.roomId].players) = 0
           \/ ( /\ Len(rooms'[last'.roomId].players) < 2
                /\ rooms[last'.roomId].status # "waiting" ) )
      => /\ rooms'[last'.roomId].status = "waiting"
         /\ rooms'[last'.roomId].calledNumbers = <<>>
         /\ rooms'[last'.roomId].currentNumber = 0
         /\ rooms'[last'.roomId].gameStartTime = FALSE
         /\ last'.roomId \notin DOMAIN activeGameIntervals'
         /\ \A h \in DOMAIN liveIntervals' : liveIntervals'[h] # last'.roomId ]_vars

\* C17 witness: a leave took an active room, whose scheduler had just been started,
\* down to one player and reset it
C17_Witness ==
  /\ last.op = "leaveRoom" /\ last.success
  /\ Len(rooms[last.roomId].players) = 1
  /\ rooms[last.roomId].status = "waiting"
  /\ rooms[last.roomId].gameStartTime = FALSE
  /\ warmups[last.roomId] > 0
  /\ last.roomId \notin DOMAIN activeGameIntervals


\* C18: in the in-memory module, when the last connected player of an active
\* room leaves, by leaveRoom or by removePlayer on disconnect, the room ends
\* with status waiting, calledNumbers empty, no gameInterval registered (and no
\* interval of the room left running) and no board selections.
C18_LastPlayerLeavesActiveRoom ==
  [][ ( /\ last'.op \in {"leaveRoom", "removePlayer"}
        /\ last'.success
        /\ last'.roomId \in MemRoomIds
        /\ memRooms[last'.roomId].status = "active"
        /\ memRooms[last'.roomId].connectedPlayers = {last'.playerId} )
      => /\ memRooms'[last'.roomId].status = "waiting"
         /\ memRooms'[last'.roomId].calledNumbers = <<>>
         /\ memRooms'[last'.roomId].gameInterval = Undefined
         /\ \A h \in DOMAIN memLive' : memLive'[h] # last'.roomId
         /\ memRooms'[last'.roomId].selectedBoards = EmptyMap ]_vars

\* C18 witness: a disconnect has emptied a room whose game had been promoted,
\* while another client, not a member, held a board of it
C18_Witness ==
  /\ last.op = "removePlayer"
  /\ last.roomId \in MemRoomIds
  /\ memRooms[last.roomId].status = "waiting"
  /\ memRooms[last.roomId].startTime
  /\ memPromos[last.roomId] = 0
  /\ memRooms[last.roomId].connectedPlayers = {}
  /\ memRooms[last.roomId].selectedBoards = EmptyMap
  /\ memLive = EmptyMap
  /\ DOMAIN memPlayers # {}

\* C19: in both implementations, after any sequence of scheduler starts and
\* stops at most one repeating number-calling interval is live per room, and it
\* is the one the registry (activeGameIntervals, room.gameInterval) holds for
\* the room: every interval an earlier start created has been cleared.
C19_OneIntervalPerRoom ==
  /\ \A h \in DOMAIN liveIntervals :
       /\ liveIntervals[h] \in DOMAIN activeGameIntervals
       /\ activeGameIntervals[liveIntervals[h]] = h
  /\ \A roomId \in RoomIds :
       Cardinality({h \in DOMAIN liveIntervals : liveIntervals[h] = roomId}) <= 1
  /\ \A h \in DOMAIN memLive : memRooms[memLive[h]].gameInterval = h
  /\ \A roomId \in MemRoomIds :
       Cardinality({h \in DOMAIN memLive : memLive[h] = roomId}) <= 1

\* C19 witness: the promotion timeout has started the scheduler of a room whose
\* game start-game had already set running, and one interval is live
C19_Witness ==
  /\ last.op = "promotion"
  /\ last.roomId \in DOMAIN games
  /\ games[last.roomId].gameStatus = "active"
  /\ games[last.roomId].calledNumbers # <<>>
  /\ rooms[last.roomId].status = "active"
  /\ last.roomId \in DOMAIN activeGameIntervals
  /\ Cardinality({h \in DOMAIN liveIntervals : liveIntervals[h] = last.roomId}) = 1

\* C20: in the store-backed GameRoomManager, a game whose gameStatus is active
\* does not stay active forever: unless a claimBingo, leaveRoom or resetGame
\* call returns, the scheduler's ticks use up the numbers and the tick after
\* the last one sets gameStatus to finished.
C20_ActiveGameFinishes ==
  \A roomId \in RaceRoomIds :
    (roomId \in DOMAIN games /\ games[roomId].gameStatus = "active")
      ~> \/ (roomId \in DOMAIN games /\ games[roomId].gameStatus = "finished")
         \/ last.op \in {"claimBingo", "leaveRoom", "resetGame"}

\* C21: a joinRoom that fails (room not found, room full, status not waiting)
\* returns success false with a message and changes nothing: no room, no
\* session mapping, no board selection, no game state, no timer.
C21_FailedJoinChangesNothing ==
  [][ (last'.op = "joinRoom" /\ ~last'.success)
      => /\ last'.message \in {"Room not found", "Room is full", "Game already started"}
         /\ UNCHANGED <<rooms, sessions, selections, games, activeGameIntervals,
                        liveIntervals, warmups, promos>> ]_vars

\* C21 witness: a join was refused by a full room while the player was a member
\* of another room
C21_Witness ==
  /\ last.op = "joinRoom"
  /\ ~last.success
  /\ last.message = "Room is full"
  /\ last.playerId \in DOMAIN sessions
  /\ sessions[last.playerId] # last.roomId
  /\ FindIndexById(rooms[sessions[last.playerId]].players, last.playerId) # 0

\* the member of the room that carries the telegramId under another session id
OldSessions(room, telegramId, playerId) ==
  {room.players[i].id : i \in {j \in 1 .. Len(room.players) :
                                  /\ room.players[j].telegramId = telegramId
                                  /\ room.players[j].id # playerId}}

\* C22: when a player carrying a telegramId joins a waiting, non-full room that
\* holds a member with the same telegramId under another session id, the join
\* succeeds, the old entry is gone from room.players, the old session mapping
\* and the old session's board selections are removed, the new session is a
\* member, and exactly one member carries that telegramId.
C22_TelegramSessionReplaced ==
  [][ ( /\ last'.op = "joinRoom"
        /\ last'.arg # NoTelegram
        /\ last'.roomId \in DOMAIN rooms
        /\ rooms[last'.roomId].status = "waiting"
        /\ Len(rooms[last'.roomId].players) < rooms[last'.roomId].maxPlayers
        /\ OldSessions(rooms[last'.roomId], last'.arg, last'.playerId) # {} )
      => /\ last'.success
         /\ OldSessions(rooms'[last'.roomId], last'.arg, last'.playerId) = {}
         /\ \A old \in OldSessions(rooms[last'.roomId], last'.arg, last'.playerId) :
              /\ old \notin DOMAIN sessions'
              /\ \A x \in selections' : x.playerId # old
         /\ Cardinality({i \in 1 .. Len(rooms'[last'.roomId].players) :
                           rooms'[last'.roomId].players[i].telegramId = last'.arg}) = 1
         /\ \E i \in 1 .. Len(rooms'[last'.roomId].players) :
              rooms'[last'.roomId].players[i] =
                [id |-> last'.playerId, telegramId |-> last'.arg] ]_vars

\* C22 witness: a session joined under a telegramId and is the only member of
\* the room, while the other session, which has lost its mapping and its
\* boards, still has a selectBoard call for the room in flight
C22_Witness ==
  /\ last.op = "joinRoom"
  /\ last.success
  /\ last.arg # NoTelegram
  /\ rooms[last.roomId].players = <<[id |-> last.playerId, telegramId |-> last.arg]>>
  /\ \E old \in PlayerIds \ {last.playerId} :
       /\ old \notin DOMAIN sessions
       /\ \A x \in selections : x.playerId # old
       /\ boardCalls[old].pc = "return"
       /\ boardCalls[old].roomId = last.roomId

\* the rooms findAvailableRoom(stake) may return
Joinable(stake) ==
  {r \in DOMAIN rooms : /\ rooms[r].stake = stake
                         /\ rooms[r].status = "waiting"
                         /\ Len(rooms[r].players) < rooms[r].maxPlayers}

\* C23: findAvailableRoom(stake) returns a room of that stake that is waiting
\* and has a free place, the one created earliest among them, and returns null
\* exactly when there is no such room.
C23_FindsEarliestJoinable ==
  last.op = "findAvailableRoom"
    => IF Joinable(last.arg) = {}
       THEN last.roomId = ""
       ELSE /\ last.roomId \in Joinable(last.arg)
            /\ \A r \in Joinable(last.arg) :
                 rooms[last.roomId].createdAt <= rooms[r].createdAt

\* C23 witness: two rooms of the stake can be joined and the older one is returned
C23_Witness ==
  /\ last.op = "findAvailableRoom"
  /\ Cardinality(Joinable(last.arg)) = 2
  /\ last.roomId \in Joinable(last.arg)
  /\ \E r \in Joinable(last.arg) : rooms[r].createdAt > rooms[last.roomId].createdAt

\* the rooms whose connectedPlayers hold the player
RoomsOf(playerId) == {r \in MemRoomIds : playerId \in memRooms[r].connectedPlayers}

\* C24: in the in-memory module every player id is in the connectedPlayers set
\* of at most one room, and that room is the player's currentRoom.
C24_OneRoomPerPlayer ==
  \A playerId \in PlayerIds :
    /\ Cardinality(RoomsOf(playerId)) <= 1
    /\ \A r \in RoomsOf(playerId) :
         /\ playerId \in DOMAIN memPlayers
         /\ memPlayers[playerId].currentRoom = r

\* C24 witness: a player whose earlier room was reset under it (currentRoom
\* was left pointing at the emptied room) has joined the other room
C24_Witness ==
  /\ last.op = "joinRoom"
  /\ last.success
  /\ last.roomId = "room2"
  /\ RoomsOf(last.playerId) = {"room2"}
  /\ memRooms["room1"].startTime
  /\ memRooms["room1"].status = "waiting"
  /\ \E other \in DOMAIN memPlayers \ {last.playerId} :
       memPlayers[other].currentRoom = "room1" /\ RoomsOf(other) = {}

\* the ids of the members of a room
MemberIds(room) == {room.players[i].id : i \in 1 .. Len(room.players)}

\* C25: when joinRoom calls of different players on one waiting room interleave
\* at their awaits, a call that returns success leaves its player in the stored
\* room, and every player with no call in flight whose session maps to the room
\* is in room.players: no successful join is overwritten.
C25_NoJoinOverwritten ==
  [][ ( /\ last'.op = "joinRoom"
        /\ last'.success
        /\ joinCalls[last'.playerId].pc \in {"return", "already"}
        /\ joinCalls'[last'.playerId].pc = "idle" )
      => \A q \in PlayerIds :
           ( /\ joinCalls'[q].pc = "idle"
             /\ q \in DOMAIN sessions'
             /\ sessions'[q] = last'.roomId )
           => q \in MemberIds(rooms'[last'.roomId]) ]_vars

\* C26: the game-state-update snapshots of a room go out in the order of the
\* committed mutations: when the last command that returned is a successful
\* claimBingo, whose handler emitted the finished game state it wrote, and that
\* state is still the stored one, a scheduler tick in flight does not emit a
\* snapshot with gameStatus active after it.
C26_NoStaleSnapshot ==
  [][ \A i \in TickSlots :
        ( /\ ticks[i].pc = "emit"
          /\ ticks'[i].pc = "idle"
          /\ last.op = "claimBingo"
          /\ last.success
          /\ last.roomId = ticks[i].roomId
          /\ GetGameState(last.roomId).gameStatus = "finished" )
        => ticks[i].gameState.gameStatus # "active" ]_vars

\* C27: in the in-memory WebSocket server every join_room, leave_room,
\* select_board or start_game message from a registered player that is not
\* applied (the operation returns false, or a required field is absent) makes
\* the server send exactly one error message to the sender.
C27_RejectedCommandAnswered ==
  [][ ( /\ last'.op \in {"join_room", "leave_room", "select_board", "start_game"}
        /\ last'.playerId \in DOMAIN memPlayers
        /\ ~last'.success )
      => last'.arg = 1 ]_vars

\* C28: in the in-memory module, after every leaveRoom call that removes a
\* player from a room, room.prize is room.stake times the number of players
\* still connected to the room.
C28_PrizeAfterLeave ==
  [][ ( /\ last'.op = "leaveRoom"
        /\ last'.success
        /\ last'.roomId \in MemRoomIds
        /\ last'.playerId \in memRooms[last'.roomId].connectedPlayers )
      => memRooms'[last'.roomId].prize =
           memRooms'[last'.roomId].stake *
             Cardinality(memRooms'[last'.roomId].connectedPlayers) ]_vars

\* C29: a first-draw warm-up callback created by a scheduler start that was
\* later stopped never draws a number. Each start leaves one warm-up pending
\* and clears the interval of the start before it, and timeouts fire in the
\* order they were set: when two or more warm-ups of a room are pending, the
\* one that fires next belongs to a start whose scheduler was stopped, and it
\* leaves the called numbers as they are.
C29_StoppedWarmupDrawsNothing ==
  [][ \A roomId \in RaceRoomIds :
        ( /\ warmups[roomId] >= 2
          /\ warmups'[roomId] < warmups[roomId] )
        => GetGameState(roomId).calledNumbers' = GetGameState(roomId).calledNumbers ]_vars

\* C30: the deferred post-win reset scheduled by handleBingoWin has no effect
\* when the room has already left game_over before it fires: in a room that was
\* reset and has since been re-joined or re-started, the callback removes no
\* player, no board and no called number.
C30_LatePostWinResetHarmless ==
  [][ \A roomId \in MemRoomIds :
        ( /\ memResets'[roomId] < memResets[roomId]
          /\ memRooms[roomId].status # "game_over" )
        => /\ memRooms'[roomId].connectedPlayers = memRooms[roomId].connectedPlayers
           /\ memRooms'[roomId].selectedBoards = memRooms[roomId].selectedBoards
           /\ memRooms'[roomId].calledNumbers = memRooms[roomId].calledNumbers ]_vars

\* C31: in both implementations a promotion callback scheduled in one starting
\* episode never promotes the room in a later starting episode. A room schedules
\* one callback each time it becomes starting, and callbacks fire in the order
\* they were set: when two or more are pending, the one that fires next belongs
\* to an episode that has ended, and it leaves a starting room starting.
C31_StalePromotionIgnored ==
  [][ /\ \A roomId \in RaceRoomIds :
           ( /\ promos[roomId] >= 2
             /\ promos'[roomId] < promos[roomId]
             /\ rooms[roomId].status = "starting" )
           => rooms'[roomId].status = "starting"
      /\ \A roomId \in GameRoomIds :
           ( /\ memPromos[roomId] >= 2
             /\ memPromos'[roomId] < memPromos[roomId]
             /\ memRooms[roomId].status = "starting" )
           => memRooms'[roomId].status = "starting" ]_vars

\* C32: in the in-memory module every change of room.status is one of
\* waiting -> starting, starting -> active, active -> game_over, or a reset to
\* waiting; in particular handleBingoWin never moves a waiting or starting room
\* directly to game_over.
C32_StatusAdvancesInOrder ==
  [][ \A roomId \in MemRoomIds :
        memRooms'[roomId].status # memRooms[roomId].status
        => \/ memRooms'[roomId].status = "waiting"
           \/ <<memRooms[roomId].status, memRooms'[roomId].status>> \in
                {<<"waiting", "starting">>, <<"starting", "active">>,
                 <<"active", "game_over">>} ]_vars

\* C33: in the store-backed GameRoomManager the room record and the game-state
\* record of a room agree on whether a game is running: whenever gameStatus is
\* active the room's status is active, and whenever gameStatus is finished the
\* room's status is not active.
C33_RoomAndGameAgree ==
  \A roomId \in DOMAIN rooms \cap DOMAIN games :
    /\ games[roomId].gameStatus = "active" => rooms[roomId].status = "active"
    /\ games[roomId].gameStatus = "finished" => rooms[roomId].status # "active"

\* C34: in the in-memory module room.players equals the size of
\* room.connectedPlayers in every reachable state, also after leaveRoom was
\* called for a player who is not a member of the room.
C34_PlayersCountsConnected ==
  \A roomId \in MemRoomIds :
    memRooms[roomId].players = Cardinality(memRooms[roomId].connectedPlayers)

\* C35: in the in-memory module each entry of a room's selectedBoards is held
\* by a player who is in that room's connectedPlayers: selectBoard records no
\* board for a non-member and no selection outlives its holder's membership.
C35_BoardsHeldByMembers ==
  \A roomId \in MemRoomIds :
    \A boardId \in DOMAIN memRooms[roomId].selectedBoards :
      memRooms[roomId].selectedBoards[boardId] \in memRooms[roomId].connectedPlayers

\* C36: in the in-memory module a room that has a number-calling interval
\* registered (room.gameInterval is set) is active: every operation that moves
\* the room out of active clears the interval in the same step.
C36_IntervalOnlyWhileActive ==
  \A roomId \in MemRoomIds :
    memRooms[roomId].gameInterval # Undefined => memRooms[roomId].status = "active"

\* C36 witness: the interval of room1 has fired and is still registered
C36_Witness ==
  /\ last.op = "callNextNumber"
  /\ last.roomId = "room1"
  /\ memRooms["room1"].gameInterval # Undefined
  /\ memRooms["room1"].calledNumbers # <<>>

\* C37: in the store-backed GameRoomManager, after any sequence of joinRoom,
\* leaveRoom and promotion callbacks each run to completion, a room whose
\* status is starting or active has at least 2 players.
C37_RunningRoomHasTwoPlayers ==
  \A roomId \in DOMAIN rooms :
    rooms[roomId].status \in {"starting", "active"} => Len(rooms[roomId].players) >= 2

\* the players whose stored websocket is the socket
PlayersOn(ws) == {p \in DOMAIN memPlayers : memPlayers[p].websocket = ws}

\* C38: in the in-memory WebSocket server, after a socket closes no player
\* whose stored websocket is that socket remains registered or in any room's
\* connectedPlayers, even when one socket sends messages under several
\* playerIds.
C38_CloseRemovesSocketPlayers ==
  [][ \A ws \in Sockets :
        MemClose(ws)
        => \A p \in PlayersOn(ws) :
             /\ p \notin DOMAIN memPlayers'
             /\ \A roomId \in MemRoomIds : p \notin memRooms'[roomId].connectedPlayers ]_vars
====
